---- MODULE Spec2Model ----
(***************************************************************************)
(* Kocom wallpad RS-485 client (custom_components/kocom_wallpad/pywallpad). *)
(* Byte level helpers, the integrity functions of crc.py, the frame         *)
(* extractor and the send/ack/retry loop of client.py, and the parts of     *)
(* packet.py that the receive path needs to decide what becomes the         *)
(* last observed packet, and the device decoders with their learned state.  *)
(* enums.py and const.py in this tree are older than packet.py: packet.py   *)
(* names DeviceType.VENT and DeviceType.IGNORE_2, enums.py still calls the  *)
(* ventilation fan FAN (0x48) and has no second ignore code.  The model     *)
(* reads packet.py against the enum it was written for: VENT carries the    *)
(* code of FAN, and no frame of the model carries the IGNORE_2 code.        *)
(***************************************************************************)
EXTENDS Integers, Sequences, FiniteSets, TLC

\* ------------------------------------------------------------------------
\* Bounds of the model
\* ------------------------------------------------------------------------
MaxCmds == 2
MaxSegs == 2
\* devices with learned state that answer on the bus in one receive run
MaxDevices == 1
\* callbacks registered with add_device_callback in a callback run
MaxCallbacks == 2

\* ------------------------------------------------------------------------
\* Program constants
\* ------------------------------------------------------------------------
packet_length == 21
max_buffer_size == 4096
max_retries == 4

PREFIX_HEADER == <<170, 85>>
SUFFIX_HEADER == <<13, 13>>

None == <<>>

\* ------------------------------------------------------------------------
\* Byte helpers
\* ------------------------------------------------------------------------
Bit(x, k) == (x \div (2 ^ k)) % 2

XorBit(a, b, k) == ((Bit(a, k) + Bit(b, k)) % 2) * (2 ^ k)

\* a ^ b for two bytes
Xor8(a, b) ==
    XorBit(a, b, 0) + XorBit(a, b, 1) + XorBit(a, b, 2) + XorBit(a, b, 3)
      + XorBit(a, b, 4) + XorBit(a, b, 5) + XorBit(a, b, 6) + XorBit(a, b, 7)

\* x with bit k inverted
FlipBit(x, k) == LET v == x IN IF Bit(v, k) = 1 THEN v - (2 ^ k) ELSE v + (2 ^ k)

RECURSIVE SumFrom(_, _)
SumFrom(s, k) == IF k > Len(s) THEN 0 ELSE s[k] + SumFrom(s, k + 1)

\* sum(s)
SumSeq(s) == LET v == s IN SumFrom(v, 1)

\* Python slice s[a:b] with 0 <= a, on a sequence (0-based, b exclusive)
Slice(s, a, b) ==
    LET hi == IF b > Len(s) THEN Len(s) ELSE b
    IN  IF a >= hi THEN <<>> ELSE SubSeq(s, a + 1, hi)

\* ------------------------------------------------------------------------
\* crc.py
\* ------------------------------------------------------------------------
\* one pass of the inner loop: shift left, xor the polynomial 0x1021
\* (bits 12, 5 and 0) when the top bit was set, keep 16 bits
CrcShift(crc) ==
    LET c == crc
        sh == (c * 2) % 65536
    IN  IF Bit(c, 15) = 1 THEN FlipBit(FlipBit(FlipBit(sh, 12), 5), 0) ELSE sh

\* crc ^= (byte << 8), then the eight passes of the inner loop
CrcByte(crc, byte) ==
    LET c0 == (Xor8(crc \div 256, byte) * 256) + (crc % 256)
    IN  CrcShift(CrcShift(CrcShift(CrcShift(CrcShift(CrcShift(CrcShift(CrcShift(c0))))))))

RECURSIVE CrcFold(_, _, _)
CrcFold(crc, data, k) ==
    IF k > Len(data) THEN crc
    ELSE LET c == CrcByte(crc, data[k])
         IN  IF c >= 0 THEN CrcFold(c, data, k + 1) ELSE c

crc_ccitt_xmodem(data) == LET d == data IN CrcFold(0, d, 1)

verify_crc(packet) ==
    IF Len(packet) < 21 THEN FALSE
    ELSE crc_ccitt_xmodem(Slice(packet, 2, 17)) = (packet[18] * 256) + packet[19]

\* None when the packet is too short, else <<high, low>>
calculate_crc(packet) ==
    IF Len(packet) < 17 THEN None
    ELSE LET c == crc_ccitt_xmodem(Slice(packet, 2, 17))
         IN  <<(c \div 256) % 256, c % 256>>

verify_checksum(packet) ==
    IF Len(packet) < 21 THEN FALSE
    ELSE (SumSeq(Slice(packet, 0, 18)) + 1) % 256 = packet[19]

\* None when the packet is too short, else <<checksum>>
calculate_checksum(packet) ==
    IF Len(packet) < 17 THEN None
    ELSE <<(SumSeq(packet) + 1) % 256>>

\* ------------------------------------------------------------------------
\* client.py: KocomClient.extract_packets
\* ------------------------------------------------------------------------
\* bytes.find(PREFIX_HEADER): 0-based position of the first match, -1 if none
RECURSIVE FindFrom(_, _)
FindFrom(buf, i) ==
    IF i + 2 > Len(buf) THEN -1
    ELSE IF buf[i + 1] = PREFIX_HEADER[1] /\ buf[i + 2] = PREFIX_HEADER[2] THEN i
    ELSE FindFrom(buf, i + 1)

FindPrefix(buf) == FindFrom(buf, 0)

\* the while loop with "len(self.buffer) > self.packet_length" as its test
RECURSIVE ExtractLoop_keep(_, _)
ExtractLoop_keep(buf, pkts) ==
    IF Len(buf) <= packet_length THEN [buffer |-> buf, packets |-> pkts]
    ELSE LET start_pos == FindPrefix(buf)
         IN  IF start_pos = -1 THEN [buffer |-> <<>>, packets |-> pkts]
             ELSE LET b1 == IF start_pos > 0 THEN Slice(buf, start_pos, Len(buf)) ELSE buf
                      skipped == Slice(b1, 2, Len(b1))
                      rest == Slice(b1, packet_length, Len(b1))
                      more == Append(pkts, Slice(b1, 0, packet_length))
                  IN  IF Len(b1) < packet_length
                      THEN [buffer |-> b1, packets |-> pkts]
                      ELSE IF Slice(b1, packet_length - 2, packet_length) # SUFFIX_HEADER
                      THEN ExtractLoop_keep(skipped, pkts)
                      ELSE ExtractLoop_keep(rest, more)

\* the while loop leaving a buffer without a prefix as it is
RECURSIVE ExtractLoop_hoard(_, _)
ExtractLoop_hoard(buf, pkts) ==
    IF Len(buf) < packet_length THEN [buffer |-> buf, packets |-> pkts]
    ELSE LET start_pos == FindPrefix(buf)
         IN  IF start_pos = -1 THEN [buffer |-> buf, packets |-> pkts]
             ELSE LET b1 == IF start_pos > 0 THEN Slice(buf, start_pos, Len(buf)) ELSE buf
                      skipped == Slice(b1, 2, Len(b1))
                      rest == Slice(b1, packet_length, Len(b1))
                      more == Append(pkts, Slice(b1, 0, packet_length))
                  IN  IF Len(b1) < packet_length
                      THEN [buffer |-> b1, packets |-> pkts]
                      ELSE IF Slice(b1, packet_length - 2, packet_length) # SUFFIX_HEADER
                      THEN ExtractLoop_hoard(skipped, pkts)
                      ELSE ExtractLoop_hoard(rest, more)

\* the while loop of extract_packets; the state of the loop is (buffer, packets)
RECURSIVE ExtractLoop(_, _)
ExtractLoop(buf, pkts) ==
    IF Len(buf) < packet_length THEN [buffer |-> buf, packets |-> pkts]
    ELSE LET start_pos == FindPrefix(buf)
         IN  IF start_pos = -1 THEN [buffer |-> <<>>, packets |-> pkts]
             ELSE LET b1 == IF start_pos > 0 THEN Slice(buf, start_pos, Len(buf)) ELSE buf
                      skipped == Slice(b1, 2, Len(b1))
                      rest == Slice(b1, packet_length, Len(b1))
                      more == Append(pkts, Slice(b1, 0, packet_length))
                  IN  IF Len(b1) < packet_length
                      THEN [buffer |-> b1, packets |-> pkts]
                      ELSE IF Slice(b1, packet_length - 2, packet_length) # SUFFIX_HEADER
                      THEN ExtractLoop(skipped, pkts)
                      ELSE ExtractLoop(rest, more)

\* extract_packets with "self.buffer = data" as its first line
extract_packets_fresh(buf0, data) ==
    LET r == ExtractLoop(data, <<>>)
    IN  [buffer  |-> IF Len(r.buffer) > max_buffer_size
                     THEN Slice(r.buffer, Len(r.buffer) - max_buffer_size, Len(r.buffer))
                     ELSE r.buffer,
         packets |-> r.packets]

extract_packets(buf0, data) ==
    LET joined == buf0 \o data
        r == ExtractLoop(joined, <<>>)
    IN  [buffer  |-> IF Len(r.buffer) > max_buffer_size
                     THEN Slice(r.buffer, Len(r.buffer) - max_buffer_size, Len(r.buffer))
                     ELSE r.buffer,
         packets |-> r.packets]

\* ------------------------------------------------------------------------
\* enums.py
\* ------------------------------------------------------------------------
WALLPAD == 1
LIGHT == 14
GAS == 44
THERMOSTAT == 54
OUTLET == 59
EV == 68
VENT == 72
AC == 57
IGNORE == 134

PacketTypeValues == {9, 11, 13}
SEND == 11
RECV == 13

STATUS == 0
ON == 1
OFF == 2
DETECT == 4
SCAN == 58
CommandValues == {STATUS, ON, OFF, DETECT, SCAN, 255}

\* ------------------------------------------------------------------------
\* packet.py: KocomPacket
\* ------------------------------------------------------------------------
\* packet[k] of the Python code (0-based)
B(packet, k) == packet[k + 1]

packet_type(packet) == (B(packet, 3) \div 16) % 16
seq_number(packet) == B(packet, 3) % 16
dest(packet) == Slice(packet, 5, 7)
src(packet) == Slice(packet, 7, 9)
command(packet) == B(packet, 9)
payload(packet) == Slice(packet, 10, 18)

\* KocomPacket.__init__ returns normally: both enum conversions succeed
KocomPacketInit(packet) ==
    /\ packet_type(packet) \in PacketTypeValues
    /\ command(packet) \in CommandValues

\* _address once the device_type property has been read
address(packet) ==
    IF src(packet)[1] = WALLPAD THEN dest(packet) ELSE src(packet)

device_type(packet) == address(packet)[1]

room_id(packet) == address(packet)[2]

\* device_id: "<type name>_<room>", kept as the pair it is formatted from
device_id(packet) == <<device_type(packet), room_id(packet)>>

\* make_packet with the device address first for every type
make_packet_uniform(addr, cmd, pl) ==
    <<48, 188, 0>> \o addr \o <<1, 0>> \o <<cmd>> \o pl

make_packet(addr, cmd, pl) ==
    <<48, 188, 0>>
      \o (IF addr[1] = EV THEN <<1, 0>> \o addr ELSE addr \o <<1, 0>>)
      \o <<cmd>> \o pl

\* ------------------------------------------------------------------------
\* packet.py: LightPacket.parse_data
\* learned state of one light device: [ids, bri_lv], both sorted lists in
\* the code, kept as sets here
\* ------------------------------------------------------------------------
LightInit == [ids |-> {}, bri_lv |-> {}]

AllFF(pl) == \A k \in 1..Len(pl) : pl[k] = 255

\* the for loop body, un-learning a channel that reports 0x00
LightStep_forget(acc, pl, i, dtype, room) ==
    LET value == pl[i + 1]
        is_on == value = 255
        brightness == IF is_on THEN 0 ELSE value
        ids1 == IF ~AllFF(pl) /\ is_on /\ i \notin acc.ld.ids
                THEN acc.ld.ids \cup {i}
                ELSE IF value = 0 THEN acc.ld.ids \ {i} ELSE acc.ld.ids
        bri1 == IF brightness > 0 /\ i \in ids1 /\ brightness \notin acc.ld.bri_lv
                THEN acc.ld.bri_lv \cup {brightness} ELSE acc.ld.bri_lv
        state == IF bri1 # {}
                 THEN [power |-> value > 0, brightness |-> brightness]
                 ELSE [power |-> is_on]
        dev == [device_type |-> dtype, room_id |-> room, sub_id |-> ToString(i),
                state |-> state]
    IN  [ld |-> [ids |-> ids1, bri_lv |-> bri1],
         devices |-> IF i \in ids1 THEN Append(acc.devices, dev) ELSE acc.devices]

\* one iteration of the for loop; acc = [ld, devices]
LightStep(acc, pl, i, dtype, room) ==
    LET value == pl[i + 1]
        is_on == value = 255
        brightness == IF is_on THEN 0 ELSE value
        ids1 == IF ~AllFF(pl) /\ is_on /\ i \notin acc.ld.ids
                THEN acc.ld.ids \cup {i} ELSE acc.ld.ids
        bri1 == IF brightness > 0 /\ i \in ids1 /\ brightness \notin acc.ld.bri_lv
                THEN acc.ld.bri_lv \cup {brightness} ELSE acc.ld.bri_lv
        state == IF bri1 # {}
                 THEN [power |-> value > 0, brightness |-> brightness]
                 ELSE [power |-> is_on]
        dev == [device_type |-> dtype, room_id |-> room, sub_id |-> ToString(i),
                state |-> state]
    IN  [ld |-> [ids |-> ids1, bri_lv |-> bri1],
         devices |-> IF i \in ids1 THEN Append(acc.devices, dev) ELSE acc.devices]

RECURSIVE LightLoop(_, _, _, _, _)
LightLoop(acc, pl, i, dtype, room) ==
    IF i >= Len(pl) THEN acc
    ELSE LET acc1 == LightStep(acc, pl, i, dtype, room)
         IN  IF Len(acc1.devices) >= 0 THEN LightLoop(acc1, pl, i + 1, dtype, room) ELSE acc1

LightParseData(packet, ld) ==
    LET acc0 == [ld |-> ld, devices |-> <<>>]
        pl == payload(packet)
        dtype == device_type(packet)
        room == room_id(packet)
    IN  LightLoop(acc0, pl, 0, dtype, room)

\* ------------------------------------------------------------------------
\* packet.py: ThermostatPacket.parse_data
\* learned state of one thermostat: the last target temperature
\* ------------------------------------------------------------------------
ThermostatInit == 22

\* parse_data taking the target byte of every frame, on or off
ThermostatParseData_clobber(packet, ltt) ==
    LET pl == payload(packet)
        is_on == (pl[1] \div 16) = 1
        ltt1 == pl[3]
        primary == [device_type |-> device_type(packet), room_id |-> room_id(packet),
                    sub_id |-> "none",
                    state |-> [power |-> is_on, away |-> (pl[2] % 16) = 1,
                               target_temp |-> ltt1, current_temp |-> pl[5]]]
        error == [device_type |-> device_type(packet), room_id |-> -1,
                  sub_id |-> "error",
                  state |-> [state |-> pl[7] # 0, code |-> pl[7]]]
    IN  [ld |-> ltt1, devices |-> <<primary, error>>]

ThermostatParseData(packet, ltt) ==
    LET pl == payload(packet)
        is_on == (pl[1] \div 16) = 1
        ltt1 == IF is_on /\ ltt # pl[3] THEN pl[3] ELSE ltt
        primary == [device_type |-> device_type(packet), room_id |-> room_id(packet),
                    sub_id |-> "none",
                    state |-> [power |-> is_on, away |-> (pl[2] % 16) = 1,
                               target_temp |-> ltt1, current_temp |-> pl[5]]]
        error == [device_type |-> device_type(packet), room_id |-> -1,
                  sub_id |-> "error",
                  state |-> [state |-> pl[7] # 0, code |-> pl[7]]]
        hot == [device_type |-> device_type(packet), room_id |-> -1,
                sub_id |-> "hotwater temperature", state |-> [state |-> pl[4]]]
        heat == [device_type |-> device_type(packet), room_id |-> -1,
                 sub_id |-> "heatwater temperature", state |-> [state |-> pl[6]]]
    IN  [ld |-> ltt1,
         devices |-> <<primary, error>>
                       \o (IF pl[4] > 0 THEN <<hot>> ELSE <<>>)
                       \o (IF pl[6] > 0 THEN <<heat>> ELSE <<>>)]

\* ------------------------------------------------------------------------
\* packet.py: GasPacket
\* ------------------------------------------------------------------------
GasParseData(packet) ==
    <<[device_type |-> device_type(packet), room_id |-> room_id(packet),
       sub_id |-> "none", state |-> [power |-> command(packet) = ON]]>>

\* GasPacket.make_power_status(power) of a packet with this address and
\* payload: None for power on
GasMakePowerStatus(addr, pl, power) ==
    IF power THEN None ELSE make_packet(addr, OFF, pl)

\* LightPacket.make_power_status(power) and OutletPacket.make_power_status:
\* sub_id is None or <<channel>>; None stands for the ValueError
\* "Sub ID is required for this device."
LightMakePowerStatus(addr, pl, sub_id, power) ==
    IF sub_id = None THEN None
    ELSE make_packet(addr, STATUS,
                     [pl EXCEPT ![sub_id[1] + 1] = IF power THEN 255 ELSE 0])

\* LightPacket.make_brightness_status(brightness)
LightMakeBrightnessStatus(addr, pl, sub_id, brightness) ==
    IF sub_id = None THEN None
    ELSE make_packet(addr, STATUS, [pl EXCEPT ![sub_id[1] + 1] = brightness])

\* an encoder that answers power off like power on
EVMakePowerStatus_always(addr, pl, power) == make_packet(addr, ON, pl)

\* EVPacket.make_power_status(power): None for power off
EVMakePowerStatus(addr, pl, power) ==
    IF ~power THEN None ELSE make_packet(addr, ON, pl)

\* ------------------------------------------------------------------------
\* packet.py: OutletPacket.parse_data
\* learned state of one outlet device: [ids]
\* ------------------------------------------------------------------------
OutletInit == [ids |-> {}]

\* the for loop body without the all-0xFF test of lines 237-238
OutletStep_unguarded(acc, pl, i, dtype, room) ==
    LET value == pl[i + 1]
        is_on == value = 255
        ids1 == IF is_on /\ i \notin acc.ld.ids
                THEN acc.ld.ids \cup {i} ELSE acc.ld.ids
        dev == [device_type |-> dtype, room_id |-> room, sub_id |-> ToString(i),
                state |-> [power |-> is_on]]
    IN  [ld |-> [ids |-> ids1],
         devices |-> IF i \in ids1 THEN Append(acc.devices, dev) ELSE acc.devices]

\* one iteration of the for loop; acc = [ld, devices]
OutletStep(acc, pl, i, dtype, room) ==
    LET value == pl[i + 1]
        is_on == value = 255
        ids1 == IF ~AllFF(pl) /\ is_on /\ i \notin acc.ld.ids
                THEN acc.ld.ids \cup {i} ELSE acc.ld.ids
        dev == [device_type |-> dtype, room_id |-> room, sub_id |-> ToString(i),
                state |-> [power |-> is_on]]
    IN  [ld |-> [ids |-> ids1],
         devices |-> IF i \in ids1 THEN Append(acc.devices, dev) ELSE acc.devices]

RECURSIVE OutletLoop(_, _, _, _, _)
OutletLoop(acc, pl, i, dtype, room) ==
    IF i >= Len(pl) THEN acc
    ELSE LET acc1 == OutletStep(acc, pl, i, dtype, room)
         IN  IF Len(acc1.devices) >= 0 THEN OutletLoop(acc1, pl, i + 1, dtype, room) ELSE acc1

OutletParseData(packet, ld) ==
    LET acc0 == [ld |-> ld, devices |-> <<>>]
        pl == payload(packet)
        dtype == device_type(packet)
        room == room_id(packet)
    IN  OutletLoop(acc0, pl, 0, dtype, room)

\* ------------------------------------------------------------------------
\* packet.py: VentPacket
\* learned state of one vent device: ics, CO2 has been reported
\* ------------------------------------------------------------------------
VentModeValues == {0, 1, 2, 3, 5, 8}

FanSpeedValues == {0, 64, 128, 192}

VentInit == FALSE

\* parse_data reporting CO2 only while the reading is above zero
VentParseData_unsticky(packet, ics) ==
    LET pl == payload(packet)
        co2_ppm == (pl[5] * 100) + pl[6]
        primary == [device_type |-> device_type(packet), room_id |-> room_id(packet),
                    sub_id |-> "none", state |-> [power |-> (pl[1] \div 16) = 1]]
        error == [device_type |-> device_type(packet), room_id |-> -1,
                  sub_id |-> "error", state |-> [state |-> pl[8] # 0, code |-> pl[8]]]
        co2 == [device_type |-> device_type(packet), room_id |-> -1,
                sub_id |-> "CO2", state |-> [state |-> co2_ppm]]
    IN  IF pl[2] \notin VentModeValues \/ pl[3] \notin FanSpeedValues
        THEN [raised |-> TRUE, ld |-> ics, devices |-> <<>>]
        ELSE IF co2_ppm > 0
        THEN [raised |-> FALSE, ld |-> TRUE, devices |-> <<primary, error, co2>>]
        ELSE [raised |-> FALSE, ld |-> ics, devices |-> <<primary, error>>]

\* raised: VentMode(payload[1]) or FanSpeed(payload[2]) is no member
VentParseData(packet, ics) ==
    LET pl == payload(packet)
        is_on == (pl[1] \div 16) = 1
        co2_ppm == (pl[5] * 100) + pl[6]
        primary == [device_type |-> device_type(packet), room_id |-> room_id(packet),
                    sub_id |-> "none",
                    state |-> [power |-> is_on /\ pl[3] # 0,
                               vent_mode |-> IF pl[2] = 0 THEN 1 ELSE pl[2],
                               fan_speed |-> IF pl[3] = 0 THEN 64 ELSE pl[3]]]
        error == [device_type |-> device_type(packet), room_id |-> -1,
                  sub_id |-> "error",
                  state |-> [state |-> pl[8] # 0, code |-> pl[8]]]
        co2 == [device_type |-> device_type(packet), room_id |-> -1,
                sub_id |-> "CO2", state |-> [state |-> co2_ppm]]
    IN  IF pl[2] \notin VentModeValues \/ pl[3] \notin FanSpeedValues
        THEN [raised |-> TRUE, ld |-> ics, devices |-> <<>>]
        ELSE IF co2_ppm > 0 \/ ics
        THEN [raised |-> FALSE, ld |-> TRUE, devices |-> <<primary, error, co2>>]
        ELSE [raised |-> FALSE, ld |-> ics, devices |-> <<primary, error>>]

\* VentPacket.make_power_status(power)
VentMakePowerStatus(addr, pl, power) ==
    make_packet(addr, STATUS, [pl EXCEPT ![1] = IF power THEN 17 ELSE 0])

\* VentPacket.make_vent_mode(vent_mode)
VentMakeVentMode(addr, pl, vent_mode) ==
    make_packet(addr, STATUS, [pl EXCEPT ![1] = 17, ![2] = vent_mode])

\* VentPacket.make_fan_speed(fan_speed)
VentMakeFanSpeed(addr, pl, fan_speed) ==
    make_packet(addr, STATUS,
                [pl EXCEPT ![1] = IF fan_speed = 0 THEN 0 ELSE 17, ![3] = fan_speed])

\* ------------------------------------------------------------------------
\* packet.py: ThermostatPacket encoders
\* ------------------------------------------------------------------------
ThermostatMakePowerStatus(addr, pl, power) ==
    make_packet(addr, STATUS, [pl EXCEPT ![1] = IF power THEN 17 ELSE 1, ![2] = 0])

ThermostatMakeAwayStatus(addr, pl, away_mode) ==
    make_packet(addr, STATUS, [pl EXCEPT ![1] = 17, ![2] = IF away_mode THEN 1 ELSE 0])

ThermostatMakeTargetTemp(addr, pl, target_temp) ==
    make_packet(addr, STATUS, [pl EXCEPT ![3] = target_temp])

\* ------------------------------------------------------------------------
\* packet.py: ACPacket
\* ------------------------------------------------------------------------
OperModeValues == {0, 1, 2, 3}

FanModeValues == {0, 1, 2, 3}

\* raised: OperMode(payload[1]) or FanMode(payload[2]) is no member
ACParseData(packet) ==
    LET pl == payload(packet)
        primary == [device_type |-> device_type(packet), room_id |-> room_id(packet),
                    sub_id |-> "none",
                    state |-> [power |-> pl[1] = 16,
                               oper_mode |-> pl[2],
                               fan_mode |-> IF pl[3] = 0 THEN 1 ELSE pl[3],
                               current_temp |-> pl[5],
                               target_temp |-> pl[6]]]
    IN  IF pl[2] \notin OperModeValues \/ pl[3] \notin FanModeValues
        THEN [raised |-> TRUE, devices |-> <<>>]
        ELSE [raised |-> FALSE, devices |-> <<primary>>]

ACMakePowerStatus(addr, pl, power) ==
    make_packet(addr, STATUS, [pl EXCEPT ![1] = IF power THEN 16 ELSE 0])

ACMakeOperMode(addr, pl, oper_mode) ==
    make_packet(addr, STATUS, [pl EXCEPT ![1] = 16, ![2] = oper_mode])

ACMakeFanMode(addr, pl, fan_mode) ==
    make_packet(addr, STATUS, [pl EXCEPT ![3] = fan_mode])

ACMakeTargetTemp(addr, pl, target_temp) ==
    make_packet(addr, STATUS, [pl EXCEPT ![6] = target_temp])

\* ------------------------------------------------------------------------
\* packet.py: EVPacket
\* learned state of one elevator: [avil_floor, last_floor]; a floor is kept
\* as the pair <<basement, number>>, None before the first one
\* ------------------------------------------------------------------------
DirectionValues == {0, 1, 2, 3}

EVInit == [avil_floor |-> FALSE, last_floor |-> None]

\* EVPacket.__init__ after the entry of the device exists: Direction(payload[0])
EVPacketInit(packet) == payload(packet)[1] \in DirectionValues

\* parse_data with the floor flag following the floor byte of each frame
EVParseData_reset(packet, ld) ==
    LET pl == payload(packet)
        primary == [device_type |-> device_type(packet), room_id |-> room_id(packet),
                    sub_id |-> "none", state |-> [power |-> FALSE]]
    IN  [ld |-> [avil_floor |-> pl[2] > 0, last_floor |-> <<FALSE, pl[2]>>],
         devices |-> <<primary>>]

\* parse_data with the test of line 686 reading the floor byte alone
EVParseData_unsticky(packet, ld) ==
    LET pl == payload(packet)
        floor == IF (pl[2] \div 16) = 8 THEN <<TRUE, pl[2] % 16>> ELSE <<FALSE, pl[2]>>
        primary == [device_type |-> device_type(packet), room_id |-> room_id(packet),
                    sub_id |-> "none", state |-> [power |-> FALSE]]
        direction == [device_type |-> device_type(packet), room_id |-> room_id(packet),
                      sub_id |-> "direction", state |-> [state |-> pl[1]]]
        floor_dev == [device_type |-> device_type(packet), room_id |-> room_id(packet),
                      sub_id |-> "floor", state |-> [state |-> floor]]
    IN  IF pl[2] > 0
        THEN [ld |-> [avil_floor |-> TRUE, last_floor |-> floor],
              devices |-> <<primary, direction, floor_dev>>]
        ELSE [ld |-> ld, devices |-> <<primary, direction>>]

EVParseData(packet, ld) ==
    LET pl == payload(packet)
        floor == IF (pl[2] \div 16) = 8 THEN <<TRUE, pl[2] % 16>> ELSE <<FALSE, pl[2]>>
        primary == [device_type |-> device_type(packet), room_id |-> room_id(packet),
                    sub_id |-> "none", state |-> [power |-> FALSE]]
        direction == [device_type |-> device_type(packet), room_id |-> room_id(packet),
                      sub_id |-> "direction", state |-> [state |-> pl[1]]]
        floor_dev == [device_type |-> device_type(packet), room_id |-> room_id(packet),
                      sub_id |-> "floor", state |-> [state |-> floor]]
    IN  IF pl[2] > 0 \/ ld.avil_floor
        THEN [ld |-> [avil_floor |-> TRUE, last_floor |-> floor],
              devices |-> <<primary, direction, floor_dev>>]
        ELSE [ld |-> ld, devices |-> <<primary, direction>>]

\* ------------------------------------------------------------------------
\* packet.py: DoorPhonePacket.parse_data and DoorPhoneParser.parse_state
\* (times left out): the ring, power and shutdown records, then the forced
\* update of a hang-up frame
\* ------------------------------------------------------------------------
\* entrance_type: private when dest and src are both 02
entrance_type(packet) ==
    IF B(packet, 4) = 2 /\ B(packet, 5) = 2 THEN "private" ELSE "public"

\* phone_id None: no byte value
NoPhoneId == -1

\* the learned phone id of each entrance, None before one is learned
DoorPhoneInit == [private |-> NoPhoneId, public |-> NoPhoneId]

\* the source-secondary bytes that are no handset id
ReservedSrc2 == {255, 49}

\* DoorPhonePacket.__init__ sets phone_id of the entrance to None (line 826),
\* parse_data then takes src2 unless it is reserved (line 851)
DoorPhoneLearn(packet, dd) ==
    LET room == entrance_type(packet)
        src2 == B(packet, 11)
        reset == [dd EXCEPT ![room] = NoPhoneId]
    IN  IF reset[room] = NoPhoneId /\ src2 \notin ReservedSrc2
        THEN [reset EXCEPT ![room] = src2] ELSE reset

\* the base of the command bodies built from a door phone packet: src, dest
\* and src2 of the packet, then phone_id or 0x2A
make_door_base(packet, phone_id) ==
    <<121, 188, B(packet, 5), B(packet, 4), 0, B(packet, 11), 255, 255, 255,
      IF phone_id = NoPhoneId \/ phone_id = 0 THEN 42 ELSE phone_id, 255, 255, 255>>

\* an encoder that answers 'open' with the open frame alone
DoorCommands_single(control) ==
    IF control = "shutdown"
    THEN <<<<3, 0>>, <<4, 0>>>>
    ELSE <<<<36, 0>>>>

\* make_power_status: shutdown_packet and open_packet, delays left out
DoorCommands(control) ==
    IF control = "shutdown"
    THEN <<<<3, 0>>, <<4, 0>>>>
    ELSE <<<<3, 0>>, <<36, 0>>, <<4, 0>>>>

\* the bodies of a command list, in list order
make_door_phone_packets(packet, phone_id, command_packet) ==
    [k \in 1..Len(command_packet) |->
        make_door_base(packet, phone_id) \o command_packet[k]]

\* DoorPhonePacket.make_power_status(power, control) of a packet: nothing
\* for power off, else the bodies of the sequence in list order
DoorMakePowerStatus(packet, phone_id, power, control) ==
    IF ~power THEN None
    ELSE make_door_phone_packets(packet, phone_id, DoorCommands(control))

DoorPhoneParseState(packet) ==
    LET event == B(packet, 15)
        event2 == B(packet, 16)
        room == entrance_type(packet)
        \* device_type "doorphone" is kept as the frame type byte 0x79
        dev(sub, st) == [device_type |-> 121, room_id |-> room,
                         sub_id |-> sub, state |-> st]
    IN  <<dev("ring", [state |-> event = 1 /\ event2 = 1]),
          dev("none", [power |-> FALSE]),
          dev("shutdown", [power |-> FALSE])>>
          \o (IF event = 4 /\ event2 = 0
              THEN <<dev("shutdown", [power |-> FALSE])>> ELSE <<>>)

\* ------------------------------------------------------------------------
\* packet.py: PacketParser
\* ------------------------------------------------------------------------
\* PacketParser.parse: the type code looked up, -1 for None
ParseType(packet) ==
    IF B(packet, 5) = WALLPAD THEN B(packet, 7)
    ELSE IF B(packet, 7) = WALLPAD THEN B(packet, 5)
    ELSE -1

\* the keys of device_class_map (enums.py values): LIGHT, OUTLET, THERMOSTAT,
\* AC, VENT, IAQ, GAS, MOTION, EV, WALLPAD, IGNORE
DeviceClassMap == {LIGHT, OUTLET, THERMOSTAT, AC, VENT, 152, GAS, 96, EV, WALLPAD, IGNORE}

\* dict helpers for the class level learned state
DictGet(d, k, default) == IF k \in DOMAIN d THEN d[k] ELSE default

\* a dict with one value for all of its keys
DictPut_shared(d, k, v) == [x \in (DOMAIN d) \cup {k} |-> v]

DictPut(d, k, v) == [x \in (DOMAIN d) \cup {k} |-> IF x = k THEN v ELSE d[x]]

EmptyDict == [x \in {} |-> 0]

\* PacketParser.parse_state for a live frame (last_data = None).
\* learned: the class level learned state, one dict per decoder class.
\* raised: an exception leaves parse_state; warned: a warning was logged;
\* packets: one entry per returned packet, the Device it carries (NoDevice
\* for a packet without a device); learned: the learned state afterwards
NoDevice == [device_type |-> -1, room_id |-> -1, sub_id |-> "none", state |-> <<>>]

\* the class a type code selects registers the device: __init__ of the class
Registered(learned, t, id) ==
    IF t = LIGHT /\ id \notin DOMAIN learned.light
    THEN [learned EXCEPT !.light = DictPut(@, id, LightInit)]
    ELSE IF t = OUTLET /\ id \notin DOMAIN learned.outlet
    THEN [learned EXCEPT !.outlet = DictPut(@, id, OutletInit)]
    ELSE IF t = THERMOSTAT /\ id \notin DOMAIN learned.thermostat
    THEN [learned EXCEPT !.thermostat = DictPut(@, id, ThermostatInit)]
    ELSE IF t = VENT /\ id \notin DOMAIN learned.vent
    THEN [learned EXCEPT !.vent = DictPut(@, id, VentInit)]
    ELSE IF t = EV /\ id \notin DOMAIN learned.ev
    THEN [learned EXCEPT !.ev = DictPut(@, id, EVInit)]
    ELSE learned

\* base_packet.parse_data() of the class the type code selected
ParseData(packet, t, id, reg) ==
    LET ok == [raised |-> FALSE, warned |-> FALSE, packets |-> <<>>, learned |-> reg]
    IN  IF t = LIGHT
        THEN LET r == LightParseData(packet, reg.light[id])
             IN  [ok EXCEPT !.packets = r.devices,
                            !.learned = [reg EXCEPT !.light = DictPut(@, id, r.ld)]]
        ELSE IF t = OUTLET
        THEN LET r == OutletParseData(packet, reg.outlet[id])
             IN  [ok EXCEPT !.packets = r.devices,
                            !.learned = [reg EXCEPT !.outlet = DictPut(@, id, r.ld)]]
        ELSE IF t = THERMOSTAT
        THEN LET r == ThermostatParseData(packet, reg.thermostat[id])
             IN  [ok EXCEPT !.packets = r.devices,
                            !.learned = [reg EXCEPT !.thermostat = DictPut(@, id, r.ld)]]
        ELSE IF t = VENT
        THEN LET r == VentParseData(packet, reg.vent[id])
             IN  [ok EXCEPT !.raised = r.raised, !.packets = r.devices,
                            !.learned = [reg EXCEPT !.vent = DictPut(@, id, r.ld)]]
        ELSE IF t = EV
        THEN LET r == EVParseData(packet, reg.ev[id])
             IN  [ok EXCEPT !.packets = r.devices,
                            !.learned = [reg EXCEPT !.ev = DictPut(@, id, r.ld)]]
        ELSE IF t = GAS
        THEN [ok EXCEPT !.packets = GasParseData(packet)]
        ELSE IF t = AC
        THEN LET r == ACParseData(packet)
             IN  [ok EXCEPT !.raised = r.raised, !.packets = r.devices]
        ELSE ok  \* IAQ, motion: no frame of the model has these types

parse_state(packet, learned) ==
    LET t == ParseType(packet)
        same == [raised |-> FALSE, warned |-> FALSE, packets |-> <<>>,
                 learned |-> learned]
    IN  IF t = -1 \/ t \notin DeviceClassMap THEN [same EXCEPT !.warned = TRUE]
        ELSE IF ~KocomPacketInit(packet) THEN [same EXCEPT !.raised = TRUE]
        ELSE LET id == device_id(packet)
                 reg == Registered(learned, t, id)
                 init == [same EXCEPT !.learned = reg]
             IN  IF t = EV /\ ~EVPacketInit(packet)
                 THEN [init EXCEPT !.raised = TRUE]
                 ELSE IF (packet_type(packet) = RECV /\ command(packet) = SCAN)
                         \/ device_type(packet) \in {WALLPAD, IGNORE}
                 THEN [init EXCEPT !.packets = <<NoDevice>>]
                 ELSE ParseData(packet, t, id, init.learned)

\* what the decoder of a restored frame reads in a process that has decoded
\* nothing: last_data is <<>> (None) or <<entry>>, the learned state of the
\* device stored with the frame. _last_data.update(last_data) (line 756)
\* replaces the entry of the instance, which LightPacket, OutletPacket,
\* ThermostatPacket and EVPacket read; VentPacket reads _class_last_data
\* (line 513), which __init__ has just set to its initial value.
RestoredView(packet, last_data) ==
    LET t == ParseType(packet)
        id == device_id(packet)
        entry(type) == IF t = type /\ last_data # <<>>
                       THEN DictPut(EmptyDict, id, last_data[1]) ELSE EmptyDict
    IN  [light |-> entry(LIGHT), outlet |-> entry(OUTLET),
         thermostat |-> entry(THERMOSTAT), vent |-> EmptyDict, ev |-> entry(EV)]

\* gateway._async_fetch_last_packets: PacketParser.parse_state(packet,
\* last_data) for a restored frame, the records of the packets it returns
RestoreState(packet, last_data) ==
    LET r == parse_state(packet, RestoredView(packet, last_data))
    IN  IF r.raised THEN <<>>
        ELSE SelectSeq(r.packets, LAMBDA d : d # NoDevice)

\* ------------------------------------------------------------------------
\* Frames and command bodies the model draws its inputs from
\* ------------------------------------------------------------------------
\* a standard frame as a device puts it on the bus
StdFrame(type_seq, d, s, cmd, pl) ==
    LET body == PREFIX_HEADER \o <<48, type_seq, 0>> \o d \o s \o <<cmd>> \o pl
    IN  body \o calculate_checksum(body) \o SUFFIX_HEADER

CrcFrame(body15) ==
    LET p == PREFIX_HEADER \o body15
    IN  p \o calculate_crc(p) \o SUFFIX_HEADER

Zero8 == <<0, 0, 0, 0, 0, 0, 0, 0>>

\* gas valve room 0 / room 1 report their state (closed)
InGas0 == StdFrame(220, <<1, 0>>, <<GAS, 0>>, OFF, Zero8)
InGas1 == StdFrame(220, <<1, 0>>, <<GAS, 1>>, OFF, Zero8)
\* a checksum-valid frame of a type code device_class_map does not have
InUnknown == StdFrame(220, <<1, 0>>, <<119, 0>>, STATUS, Zero8)
\* a door phone ring frame (CRC dialect)
\* a door phone frame of the private entrance (CRC dialect); src2 at byte 11
DoorFrame(src2, event, event2) ==
    CrcFrame(<<121, 188, 2, 2, 0, 49, 255, 255, 255, src2, 255, 255, 255, event, event2>>)

\* a ring frame with a reserved src2
InDoorRing == DoorFrame(49, 1, 1)

\* ring frames of two handsets and a hang-up frame without one
DoorFrames == {InDoorRing, DoorFrame(43, 1, 1), DoorFrame(44, 1, 1), DoorFrame(255, 4, 0)}
\* a frame whose trailer matches neither dialect
InBad == [InGas0 EXCEPT ![19] = (InGas0[19] + 1) % 256]

InFrames == {InGas0, InGas1, InUnknown, InDoorRing, InBad}

\* frames the devices with learned state put on the bus
LightFrame(room, ch0, ch2) ==
    StdFrame(220, <<1, 0>>, <<LIGHT, room>>, STATUS, <<ch0, 0, ch2, 0, 0, 0, 0, 0>>)

InLightAllFF ==
    StdFrame(220, <<1, 0>>, <<LIGHT, 0>>, STATUS, <<255, 255, 255, 255, 255, 255, 255, 255>>)

\* the answer of the light to a scan: type RECV, command SCAN
InLightScanAck == StdFrame(220, <<1, 0>>, <<LIGHT, 0>>, SCAN, Zero8)

LightFrames ==
    {LightFrame(0, 0, 0), LightFrame(0, 0, 255), LightFrame(0, 255, 0),
     LightFrame(0, 0, 5), LightFrame(1, 0, 255), InLightAllFF, InLightScanAck}

OutletFrame(ch0) ==
    StdFrame(220, <<1, 0>>, <<OUTLET, 0>>, STATUS, <<ch0, 0, 0, 0, 0, 0, 0, 0>>)

InOutletAllFF ==
    StdFrame(220, <<1, 0>>, <<OUTLET, 0>>, STATUS, <<255, 255, 255, 255, 255, 255, 255, 255>>)

\* payload[0] = power and mode, payload[2] = target, payload[4] = current
ThermostatFrame(p0, target) ==
    StdFrame(220, <<1, 0>>, <<THERMOSTAT, 0>>, STATUS, <<p0, 0, target, 0, 20, 0, 0, 0>>)

ThermostatFrames ==
    {ThermostatFrame(17, 25), ThermostatFrame(17, 22), ThermostatFrame(1, 0),
     ThermostatFrame(1, 30)}

\* payload[1] = vent mode, payload[2] = fan speed, payload[4], payload[5] = CO2
VentFrame(mode, c4, c5) ==
    StdFrame(220, <<1, 0>>, <<VENT, 0>>, STATUS, <<17, mode, 64, 0, c4, c5, 0, 0>>)

\* a vent mode byte VentMode does not have
InVentBadMode == VentFrame(4, 4, 50)

VentFrames == {VentFrame(1, 0, 0), VentFrame(1, 4, 50), InVentBadMode}

\* payload[0] = direction, payload[1] = floor
EVFrame(dir, floor) ==
    StdFrame(220, <<1, 0>>, <<EV, 0>>, STATUS, <<dir, floor, 0, 0, 0, 0, 0, 0>>)

EVFrames == {EVFrame(0, 0), EVFrame(2, 3), EVFrame(1, 130), EVFrame(9, 3)}

\* a command byte Command does not have
InBadCommand == StdFrame(220, <<1, 0>>, <<GAS, 0>>, 7, Zero8)

ListenFrames ==
    LightFrames \cup {OutletFrame(0), OutletFrame(255), InOutletAllFF}
      \cup ThermostatFrames
      \cup VentFrames \cup EVFrames
      \cup {InGas0, InUnknown, InBad, InBadCommand} \cup DoorFrames

\* what extract_packets cuts out of one read: one frame, or a frame followed
\* by a second one
Chunks ==
    {<<f>> : f \in ListenFrames}
      \cup {<<f, g>> : f \in {InVentBadMode, InBadCommand, InBad, InUnknown, InGas0},
                      g \in {InGas0, LightFrame(0, 0, 255)}}

\* bodies the encoders hand to send_packet:
\* GasPacket.make_power_status(False) of the gas valve of room 0
CmdGas0 == GasMakePowerStatus(<<GAS, 0>>, Zero8, FALSE)

CmdBodies == {CmdGas0}

\* DoorPhonePacket.make_door_phone_packets for the packet of a private
\* entrance with no learned phone id
DoorBase == make_door_base(InDoorRing, NoPhoneId)

\* DoorPhonePacket.make_power_status(True, control): bodies in list order
make_power_status_door(control) ==
    DoorMakePowerStatus(InDoorRing, NoPhoneId, TRUE, control)

\* the frames send_packet can put on the queue
OutFrames ==
    {PREFIX_HEADER \o b \o calculate_checksum(PREFIX_HEADER \o b) \o SUFFIX_HEADER :
        b \in CmdBodies}
      \cup UNION {{CrcFrame(make_power_status_door(c)[k]) :
                      k \in 1..Len(make_power_status_door(c))} :
                   c \in {"open", "shutdown"}}

\* verify_crc and verify_checksum of the frames of the model, evaluated once
crc_ok == [p \in InFrames \cup OutFrames \cup ListenFrames |-> verify_crc(p)]

checksum_ok == [p \in InFrames \cup OutFrames \cup ListenFrames |-> verify_checksum(p)]

\* ------------------------------------------------------------------------
\* State
\* ------------------------------------------------------------------------
VARIABLES
    buffer,          \* KocomClient.buffer
    stream,          \* the bytes the transport will deliver (extractor runs)
    fed,             \* how many bytes of stream receive() has returned
    extracted,       \* the frames extract_packets returned so far, in order
    items,           \* every PacketQueue object created, in creation order
    packet_queue,    \* KocomClient.packet_queue: indices into items
    cur,             \* the item _process_queue holds (0: none)
    pc,              \* where _process_queue is suspended
    polled,          \* the ack wait loop has run its body at least once
    last_packet,     \* KocomClient.last_packet (None or a frame)
    is_connected,    \* RS485Connection.is_connected
    light_data,      \* LightPacket._class_last_data
    thermostat_data, \* ThermostatPacket._class_last_data
    door_todo,       \* bodies send_packet(list) still has to enqueue
    outlet_data,     \* OutletPacket._class_last_data
    vent_data,       \* VentPacket._class_last_data
    ev_data,         \* EVPacket._class_last_data
    door_data,       \* DoorPhonePacket._last_data: phone_id per entrance
    rx_todo,         \* _listen: frames of the current chunk not yet processed
    rx_last,         \* what the last call of _process_packet did
    observed,        \* what the decoded frames have shown, per device
    requested,       \* the last command an entity asked for ("none": none yet)
    stopped,         \* KocomClient.stop() has returned
    calc,            \* checksum runs: the bytes, the frame built, the verdict
    enc,             \* encoder runs: the last known frame, the command, its frame
    call_log,        \* callback runs: the calls the last _process_packet made
    match_state      \* what the receive activity did to last_packet during this
                     \* ack wait: "none", "seen" (it holds a frame of the pending
                     \* device), "overwritten" (such a frame was replaced)

vars == <<buffer, stream, fed, extracted, items, packet_queue, cur, pc, polled,
          last_packet, is_connected, light_data, thermostat_data, door_todo,
          outlet_data, vent_data, ev_data, door_data, rx_todo, rx_last,
          observed, requested, stopped, calc, enc, call_log, match_state>>

extractVars == <<buffer, stream, fed, extracted>>

clientVars == <<items, packet_queue, cur, pc, polled, last_packet, is_connected,
                light_data, thermostat_data, door_todo, match_state>>

moreLearnedVars == <<outlet_data, vent_data, ev_data, door_data>>

listenVars == <<rx_todo, rx_last, observed>>

auxVars == <<requested, stopped, calc, enc, call_log>>

\* KocomClient.__init__ and RS485Connection.__init__
ClientInit ==
    /\ items = <<>>
    /\ packet_queue = <<>>
    /\ cur = 0
    /\ pc = "get"
    /\ polled = FALSE
    /\ last_packet = None
    /\ is_connected = FALSE
    /\ light_data = EmptyDict
    /\ thermostat_data = EmptyDict
    /\ door_todo = <<>>
    /\ match_state = "none"
    /\ outlet_data = EmptyDict
    /\ vent_data = EmptyDict
    /\ ev_data = EmptyDict
    /\ door_data = DoorPhoneInit
    /\ requested = "none"
    /\ stopped = FALSE

\* the learned state the decoders share
Learned ==
    [light |-> light_data, outlet |-> outlet_data, thermostat |-> thermostat_data,
     vent |-> vent_data, ev |-> ev_data]

\* nothing has been handed to _process_packet yet
NoCall == [packet |-> None, raised |-> FALSE, warned |-> FALSE, parsed |-> 0,
           returned |-> <<>>, callbacks |-> <<>>]

NothingObserved ==
    [light |-> EmptyDict, thermostat |-> EmptyDict, vent |-> EmptyDict,
     ev |-> EmptyDict, door |-> EmptyDict]

ListenIdle ==
    /\ rx_todo = <<>>
    /\ rx_last = NoCall
    /\ observed = NothingObserved

ExtractorIdle ==
    /\ buffer = <<>>
    /\ stream = <<>>
    /\ fed = 0
    /\ extracted = <<>>

\* no checksum run
NoCalc == [data |-> <<>>, frame |-> <<>>, stage |-> "idle", ok |-> FALSE]

\* no encoder run
NoEnc == [last |-> <<>>, sub |-> -1, attr |-> "none", value |-> -1, body |-> <<>>,
          stage |-> "idle", raised |-> FALSE, decoded |-> <<>>]

\* no callback run
NoCalls == [raisers |-> {}, calls |-> <<>>]

Init ==
    /\ ClientInit
    /\ ExtractorIdle
    /\ ListenIdle
    /\ calc = NoCalc
    /\ enc = NoEnc
    /\ call_log = NoCalls
    /\ call_log = NoCalls

\* ------------------------------------------------------------------------
\* client.py: send_packet
\* ------------------------------------------------------------------------
\* a new PacketQueue object; sends, lost, result and after_failure record what
\* happens to it: calls of connection.send for it, whether one of them wrote
\* nothing, how it left the queue, and whether a command had already failed
\* when it was created
NewItem(packet) ==
    [packet |-> packet, retries |-> 0, sends |-> 0, lost |-> FALSE, result |-> "queued",
     after_failure |-> \E i \in 1..Len(items) : items[i].result = "failed"]

\* packet_queue.put(PacketQueue(packet=p))
Put(p) ==
    /\ items' = Append(items, NewItem(p))
    /\ packet_queue' = Append(packet_queue, Len(items) + 1)

\* a send_packet that puts whatever it has built
SendSingle_unchecked(body) ==
    LET p0 == PREFIX_HEADER \o body
        sum == calculate_checksum(p0)
    IN  Put(p0 \o sum \o SUFFIX_HEADER)

\* the else branch of send_packet: prefix, checksum, suffix, verify, put
SendSingle(body) ==
    LET p0 == PREFIX_HEADER \o body
        sum == calculate_checksum(p0)
        p == p0 \o sum \o SUFFIX_HEADER
    IN  IF sum = None \/ ~verify_checksum(p)
        THEN UNCHANGED <<items, packet_queue>>
        ELSE Put(p)

\* send_packet(bytearray)
SendPacket(body) ==
    /\ Len(items) + Len(door_todo) < MaxCmds
    /\ SendSingle(body)
    /\ UNCHANGED <<extractVars, auxVars, listenVars, moreLearnedVars, cur, pc, polled, last_packet, is_connected,
                   light_data, thermostat_data, door_todo, match_state>>

\* send_packet(list) is entered: the frames wait for their delays.
\* The first command of a run may be a sequence of any length.
SendPacketList(control) ==
    /\ door_todo = <<>>
    /\ \/ items = <<>>
       \/ Len(items) + Len(make_power_status_door(control)) <= MaxCmds
    /\ door_todo' = DoorMakePowerStatus(InDoorRing, door_data["private"], TRUE,
                                         control)
    /\ UNCHANGED <<extractVars, auxVars, listenVars, moreLearnedVars, items, packet_queue, cur, pc, polled, last_packet,
                   is_connected, light_data, thermostat_data, match_state>>

\* one iteration of the loop of send_packet(list), after its sleep
SendPacketListStep ==
    /\ door_todo # <<>>
    /\ LET p0 == PREFIX_HEADER \o Head(door_todo)
           crc == calculate_crc(p0)
           p == p0 \o crc \o SUFFIX_HEADER
       IN  IF crc = None \/ ~verify_crc(p)
           THEN UNCHANGED <<items, packet_queue>>
           ELSE Put(p)
    /\ door_todo' = Tail(door_todo)
    /\ UNCHANGED <<extractVars, auxVars, listenVars, moreLearnedVars, cur, pc, polled, last_packet, is_connected,
                   light_data, thermostat_data, match_state>>

\* ------------------------------------------------------------------------
\* The commands of the entities: switch.py, light.py and entity.py hand the
\* result of an encoder to send_packet
\* ------------------------------------------------------------------------
\* turn_on / turn_off / brightness of the entities of a gas valve, an
\* elevator, a door phone, a light channel and an outlet channel; no_sub: the
\* device of the entity has no sub id. switch.py builds no entity for a
\* door phone packet; its requests follow the calls of switch.py:72-80 with
\* the control argument make_power_status takes.
EntityRequests ==
    {"gas_on", "gas_off", "ev_on", "ev_off", "door_open", "door_shutdown",
     "door_off", "light_on", "light_off", "light_brightness", "light_no_sub",
     "brightness_no_sub", "outlet_on", "outlet_no_sub"}

\* direct calls of send_packet with bodies no encoder builds: a 3 byte body,
\* a 15 byte body, and a list whose first body has 2 bytes
RawRequests == {"raw_short", "raw_15", "raw_list"}

Requests == EntityRequests \cup RawRequests

ListRequests == {"door_open", "door_shutdown", "door_off", "raw_list"}

\* what the entity passes to send_packet: None when the encoder returned
\* None or raised
Encode(req) ==
    CASE req = "gas_on" -> GasMakePowerStatus(<<GAS, 0>>, Zero8, TRUE)
      [] req = "gas_off" -> GasMakePowerStatus(<<GAS, 0>>, Zero8, FALSE)
      [] req = "ev_on" -> EVMakePowerStatus(<<EV, 0>>, Zero8, TRUE)
      [] req = "ev_off" -> EVMakePowerStatus(<<EV, 0>>, Zero8, FALSE)
      [] req = "door_open" ->
             DoorMakePowerStatus(InDoorRing, door_data["private"], TRUE, "open")
      [] req = "door_shutdown" ->
             DoorMakePowerStatus(InDoorRing, door_data["private"], TRUE, "shutdown")
      [] req = "door_off" ->
             DoorMakePowerStatus(InDoorRing, door_data["private"], FALSE, "open")
      [] req = "light_on" -> LightMakePowerStatus(<<LIGHT, 0>>, Zero8, <<2>>, TRUE)
      [] req = "light_off" -> LightMakePowerStatus(<<LIGHT, 0>>, Zero8, <<2>>, FALSE)
      [] req = "light_brightness" ->
             LightMakeBrightnessStatus(<<LIGHT, 0>>, Zero8, <<2>>, 3)
      [] req = "light_no_sub" -> LightMakePowerStatus(<<LIGHT, 0>>, Zero8, None, TRUE)
      [] req = "brightness_no_sub" ->
             LightMakeBrightnessStatus(<<LIGHT, 0>>, Zero8, None, 3)
      [] req = "outlet_on" -> LightMakePowerStatus(<<OUTLET, 0>>, Zero8, <<0>>, TRUE)
      [] req = "outlet_no_sub" -> LightMakePowerStatus(<<OUTLET, 0>>, Zero8, None, TRUE)
      [] req = "raw_short" -> <<48, 188, 0>>
      [] req = "raw_15" -> SubSeq(GasMakePowerStatus(<<GAS, 0>>, Zero8, FALSE), 1, 15)
      [] req = "raw_list" -> <<<<121, 188>>, DoorBase \o <<4, 0>>>>

\* the entity calls its encoder and passes the result to send_packet:
\* an encoder that raises ends the call, send_packet(None) raises TypeError
\* at line 237, a list goes through the loop of send_packet, a bytearray
\* through the else branch
EntityCommand(req) ==
    /\ requested' = req
    /\ LET out == Encode(req)
       IN  IF out = None
           THEN UNCHANGED <<items, packet_queue, door_todo>>
           ELSE IF req \in ListRequests
           THEN /\ door_todo = <<>>
                /\ items = <<>> \/ Len(items) + Len(out) <= MaxCmds
                /\ door_todo' = out
                /\ UNCHANGED <<items, packet_queue>>
           ELSE /\ Len(items) + Len(door_todo) < MaxCmds
                /\ SendSingle(out)
                /\ UNCHANGED door_todo
    /\ UNCHANGED <<extractVars, stopped, calc, enc, call_log, listenVars, moreLearnedVars, cur, pc, polled,
                   last_packet, is_connected, light_data, thermostat_data,
                   match_state>>

CommandNext ==
    \/ \E req \in Requests : EntityCommand(req)
    \/ SendPacketListStep

CommandSpec == Init /\ [][CommandNext]_vars

\* ------------------------------------------------------------------------
\* client.py: _handle_retry and _process_queue
\* ------------------------------------------------------------------------
\* _handle_retry with "retries > max_retries" as the test
handle_retry_late(its, i) ==
    IF its[i].retries > max_retries
    THEN [items |-> [its EXCEPT ![i].result = "failed"], pc |-> "get", cur |-> 0]
    ELSE [items |-> [its EXCEPT ![i].retries = @ + 1], pc |-> "backoff", cur |-> i]

\* _handle_retry raising out of _process_queue when the retries are used up
handle_retry_raise(its, i) ==
    IF its[i].retries >= max_retries
    THEN [items |-> [its EXCEPT ![i].result = "failed"], pc |-> "crashed", cur |-> 0]
    ELSE [items |-> [its EXCEPT ![i].retries = @ + 1], pc |-> "backoff", cur |-> i]

\* _handle_retry(queue) up to its sleep; its (items, pc, cur) after it
handle_retry(its, i) ==
    IF its[i].retries >= max_retries
    THEN [items |-> [its EXCEPT ![i].result = "failed"], pc |-> "get", cur |-> 0]
    ELSE [items |-> [its EXCEPT ![i].retries = @ + 1], pc |-> "backoff", cur |-> i]

\* a sender that takes the next item while it still waits for an ack
SenderIdle_eager == pc \in {"get", "wait"}

\* _process_queue may take the next item
SenderIdle == pc = "get"

\* tasks that ignore task.cancel()
Running_always == TRUE

\* the tasks start() created have not been cancelled
Running == ~stopped

\* a sender without the shortcut of line 132
SelfAck_never(packet) == FALSE

\* line 132: a frame that passes verify_crc is done once it is sent
SelfAck(packet) == crc_ok[packet]

\* a KocomPacket that has the attribute the comparison reads
HasSequence_present == TRUE

\* KocomPacket has no attribute named sequence (packet.py:62-77)
HasSequence == FALSE

\* the comparison of lines 147-150: "raise", TRUE or FALSE
AckCheck(last, packet) ==
    IF device_id(last) # device_id(packet) THEN "false"
    ELSE IF ~HasSequence THEN "raise"
    ELSE IF seq_number(last) = seq_number(packet)
            /\ dest(last) = src(packet) /\ src(last) = dest(packet)
    THEN "true" ELSE "false"

\* queue.get(), connection.send(), the CRC shortcut, KocomPacket(queue.packet)
QueueGet(ok) ==
    /\ Running
    /\ SenderIdle
    /\ packet_queue # <<>>
    /\ LET i == Head(packet_queue)
           written == is_connected /\ ok
           its1 == [items EXCEPT ![i].sends = @ + 1,
                                 ![i].lost = @ \/ ~written]
       IN  /\ packet_queue' = Tail(packet_queue)
           /\ is_connected' = written
           /\ IF SelfAck(items[i].packet)
              THEN /\ items' = [its1 EXCEPT ![i].result = "done"]
                   /\ pc' = "get"
                   /\ cur' = 0
                   /\ UNCHANGED <<polled, match_state>>
              ELSE IF ~KocomPacketInit(items[i].packet)
              THEN LET r == handle_retry(its1, i)
                   IN  /\ items' = r.items
                       /\ pc' = r.pc
                       /\ cur' = r.cur
                       /\ UNCHANGED <<polled, match_state>>
              ELSE /\ items' = its1
                   /\ pc' = "wait"
                   /\ cur' = i
                   /\ polled' = FALSE
                   /\ match_state' = "none"
    /\ UNCHANGED <<extractVars, auxVars, listenVars, moreLearnedVars, last_packet, light_data, thermostat_data, door_todo>>

\* one pass through the body of the while loop of the ack wait; how many
\* passes fit into the second depends on the scheduler, so the loop test may
\* fail after any pass (WaitTimeout)
WaitPoll ==
    /\ Running
    /\ pc = "wait"
    /\ LET chk == IF last_packet = None THEN "false"
                  ELSE AckCheck(last_packet, items[cur].packet)
       IN  IF chk = "true"
           THEN /\ items' = [items EXCEPT ![cur].result = "success"]
                /\ last_packet' = None
                /\ pc' = "get"
                /\ cur' = 0
                /\ polled' = FALSE
                /\ match_state' = "none"
           ELSE IF chk = "raise"
           THEN LET r == handle_retry(items, cur)
                IN  /\ items' = r.items
                    /\ pc' = r.pc
                    /\ cur' = r.cur
                    /\ polled' = FALSE
                    /\ match_state' = "none"
                    /\ UNCHANGED last_packet
           ELSE /\ polled' = TRUE
                /\ UNCHANGED <<items, pc, cur, last_packet, match_state>>
    /\ UNCHANGED <<extractVars, auxVars, listenVars, moreLearnedVars, packet_queue, is_connected, light_data,
                   thermostat_data, door_todo>>

\* the loop test fails: one second has passed without found_match
WaitTimeout ==
    /\ Running
    /\ pc = "wait"
    /\ polled
    /\ LET r == handle_retry(items, cur)
       IN  /\ items' = r.items
           /\ pc' = r.pc
           /\ cur' = r.cur
    /\ polled' = FALSE
    /\ match_state' = "none"
    /\ UNCHANGED <<extractVars, auxVars, listenVars, moreLearnedVars, packet_queue, last_packet, is_connected,
                   light_data, thermostat_data, door_todo>>

\* _handle_retry without its packet_queue.put(queue)
BackoffDone_noput ==
    /\ pc = "backoff"
    /\ pc' = "get"
    /\ cur' = 0
    /\ UNCHANGED <<extractVars, auxVars, listenVars, moreLearnedVars, items, packet_queue, polled, last_packet, is_connected,
                   light_data, thermostat_data, door_todo, match_state>>

\* the backoff sleep of _handle_retry is over: packet_queue.put(queue)
BackoffDone ==
    /\ Running
    /\ pc = "backoff"
    /\ packet_queue' = Append(packet_queue, cur)
    /\ pc' = "get"
    /\ cur' = 0
    /\ UNCHANGED <<extractVars, auxVars, listenVars, moreLearnedVars, items, polled, last_packet, is_connected,
                   light_data, thermostat_data, door_todo, match_state>>

SendActivity == (\E ok \in BOOLEAN : QueueGet(ok)) \/ WaitPoll \/ WaitTimeout \/ BackoffDone

\* ------------------------------------------------------------------------
\* client.py: _listen / _process_packet, connection.py
\* ------------------------------------------------------------------------
\* _process_packet for one extracted frame
ProcessPacket(packet) ==
    /\ Running
    /\ is_connected
    /\ IF checksum_ok[packet]
       THEN LET r == parse_state(packet, Learned)
            IN  /\ light_data' = r.learned.light
                /\ thermostat_data' = r.learned.thermostat
                /\ outlet_data' = r.learned.outlet
                /\ vent_data' = r.learned.vent
                /\ ev_data' = r.learned.ev
                /\ door_data' = door_data
                /\ last_packet' = IF ~r.raised /\ r.packets # <<>>
                                  THEN packet ELSE last_packet
                /\ match_state' =
                     IF pc # "wait" \/ r.raised \/ r.packets = <<>> THEN match_state
                     ELSE IF device_id(packet) = device_id(items[cur].packet) THEN "seen"
                     ELSE IF match_state = "seen" THEN "overwritten"
                     ELSE match_state
       ELSE IF crc_ok[packet]
       THEN \* DoorPhoneParser: a DoorPhonePacket is no KocomPacket
            /\ door_data' = DoorPhoneLearn(packet, door_data)
            /\ UNCHANGED <<light_data, thermostat_data, outlet_data, vent_data,
                           ev_data, last_packet, match_state>>
       ELSE UNCHANGED <<light_data, thermostat_data, moreLearnedVars, last_packet,
                        match_state>>
    /\ UNCHANGED <<extractVars, auxVars, listenVars, items, packet_queue, cur, pc, polled, is_connected,
                   door_todo>>

\* RS485Connection.receive fails or reads end of stream
ReceiveFail ==
    /\ Running
    /\ is_connected
    /\ is_connected' = FALSE
    /\ UNCHANGED <<extractVars, auxVars, listenVars, moreLearnedVars, items, packet_queue, cur, pc, polled, last_packet,
                   light_data, thermostat_data, door_todo, match_state>>

\* RS485Connection.reconnect_manager: connect() succeeds
Reconnect ==
    /\ Running
    /\ ~is_connected
    /\ is_connected' = TRUE
    /\ UNCHANGED <<extractVars, auxVars, listenVars, moreLearnedVars, items, packet_queue, cur, pc, polled, last_packet,
                   light_data, thermostat_data, door_todo, match_state>>

\* KocomClient.stop(): the three tasks are cancelled, the callbacks are
\* cleared, last_packet is None; a cancelled task is not resumed, whatever
\* await it was suspended at
Stop ==
    /\ ~stopped
    /\ stopped' = TRUE
    /\ last_packet' = None
    /\ UNCHANGED <<extractVars, listenVars, moreLearnedVars, requested, calc, enc,
                   call_log, items,
                   packet_queue, cur, pc, polled, is_connected, light_data,
                   thermostat_data, door_todo, match_state>>

Next ==
    \/ \E body \in CmdBodies : SendPacket(body)
    \/ \E control \in {"open", "shutdown"} : SendPacketList(control)
    \/ SendPacketListStep
    \/ \E ok \in BOOLEAN : QueueGet(ok)
    \/ WaitPoll
    \/ WaitTimeout
    \/ BackoffDone
    \/ \E packet \in InFrames : ProcessPacket(packet)
    \/ ReceiveFail
    \/ Reconnect

Spec == Init /\ [][Next]_vars

\* runs in which stop() is called at some point
StopSpec == Init /\ [][Next \/ Stop]_vars

\* ------------------------------------------------------------------------
\* Extractor runs: a byte stream reaches extract_packets in chunks
\* ------------------------------------------------------------------------
\* a frame whose payload holds the prefix and the suffix markers
SegMarkers == StdFrame(220, <<1, 0>>, <<LIGHT, 0>>, STATUS, <<170, 85, 13, 13, 0, 0, 170, 85>>)
\* a block that starts like a frame and does not end like one
SegBadSuffix == [InGas0 EXCEPT ![21] = 0]
\* a burst of line noise
SegNoise == [k \in 1..20 |-> 0]

\* noise that starts like a frame
SegFalseStart == <<170, 85, 0, 0, 0, 0, 0>>

\* the well-formed frames among the segments
FrameSegs == {InGas0, SegMarkers}

\* the segments that hold no frame
GarbageSegs == {SegNoise, SegFalseStart, <<0>>, <<170>>, <<85>>, <<13>>}

Segments == FrameSegs \cup GarbageSegs \cup {SegBadSuffix}

RECURSIVE StreamsOf(_)
StreamsOf(n) ==
    IF n = 0 THEN {<<>>}
    ELSE LET shorter == StreamsOf(n - 1)
         IN  shorter \cup {s \o g : s \in shorter, g \in Segments}

ExtractInit ==
    /\ ClientInit
    /\ stream \in StreamsOf(MaxSegs)
    /\ buffer = <<>>
    /\ fed = 0
    /\ extracted = <<>>
    /\ ListenIdle
    /\ calc = NoCalc
    /\ enc = NoEnc
    /\ call_log = NoCalls

\* _listen: receive() returns the next k bytes, extract_packets(data)
Feed(k) ==
    /\ Running
    /\ fed + k <= Len(stream)
    /\ LET data == SubSeq(stream, fed + 1, fed + k)
           r == extract_packets(buffer, data)
       IN  /\ buffer' = r.buffer
           /\ extracted' = extracted \o r.packets
    /\ fed' = fed + k
    /\ UNCHANGED <<stream, auxVars, clientVars, moreLearnedVars, listenVars>>

ExtractNext == \E k \in 1..(MaxSegs * packet_length) : Feed(k)

ExtractSpec == ExtractInit /\ [][ExtractNext]_vars

\* ------------------------------------------------------------------------
\* Checksum runs: calculate_checksum and verify_checksum applied to byte
\* sequences around the length of a frame without trailer
\* ------------------------------------------------------------------------
MaxInputLen == 19

\* prefix and body of a gas valve command, cut or extended to length n
InputOfLen(n) ==
    LET base == PREFIX_HEADER \o CmdGas0
    IN  IF n <= Len(base) THEN SubSeq(base, 1, n)
        ELSE base \o [k \in 1..(n - Len(base)) |-> 7]

\* the sequences of 16 to MaxInputLen bytes with one byte set to 0 or 255
ChecksumInputs ==
    UNION {{[InputOfLen(n) EXCEPT ![k] = v] : k \in 1..n, v \in {0, 255}} :
              n \in 16..MaxInputLen}

ChecksumInit ==
    /\ ClientInit
    /\ ExtractorIdle
    /\ ListenIdle
    /\ calc \in {[NoCalc EXCEPT !.data = d, !.stage = "input"] : d \in ChecksumInputs}
    /\ enc = NoEnc
    /\ call_log = NoCalls

\* the frame send_packet builds of the bytes (lines 238-243), and what
\* verify_checksum says of it
ChecksumEncode ==
    /\ calc.stage = "input"
    /\ LET sum == calculate_checksum(calc.data)
           frame == calc.data \o sum \o SUFFIX_HEADER
       IN  calc' = IF sum = None THEN [calc EXCEPT !.stage = "none"]
                   ELSE [calc EXCEPT !.frame = frame, !.stage = "encoded",
                                     !.ok = verify_checksum(frame)]
    /\ UNCHANGED <<extractVars, listenVars, clientVars, moreLearnedVars, requested,
                   stopped, enc, call_log>>

\* one byte of a frame that verifies takes another value
ChecksumChange(k, v) ==
    /\ calc.stage = "encoded"
    /\ calc.ok
    /\ k <= Len(calc.frame)
    /\ calc.frame[k] # v
    /\ LET frame == [calc.frame EXCEPT ![k] = v]
       IN  calc' = [calc EXCEPT !.frame = frame, !.stage = "changed",
                                !.ok = verify_checksum(frame)]
    /\ UNCHANGED <<extractVars, listenVars, clientVars, moreLearnedVars, requested,
                   stopped, enc, call_log>>

ChecksumNext ==
    \/ ChecksumEncode
    \/ \E k \in 1..(MaxInputLen + 3), v \in {0, 1, 13, 255} : ChecksumChange(k, v)

ChecksumSpec == ChecksumInit /\ [][ChecksumNext]_vars

\* ------------------------------------------------------------------------
\* Encoder runs: an entity holds the last frame of its device, builds a
\* command of it, and the frame send_packet makes of the command is decoded
\* ------------------------------------------------------------------------
\* the frame send_packet builds of a body (lines 238-240)
OutFrameOf(body) ==
    LET p0 == PREFIX_HEADER \o body
    IN  p0 \o calculate_checksum(p0) \o SUFFIX_HEADER

\* a state frame of the device of this type in room 0
StateFrame(type, cmd, pl) ==
    IF type = EV THEN StdFrame(220, <<1, 0>>, <<EV, 0>>, cmd, pl)
    ELSE StdFrame(220, <<1, 0>>, <<type, 0>>, cmd, pl)

\* the frames an entity can hold as self.packet
LastKnownFrames ==
    {StateFrame(THERMOSTAT, STATUS, <<p0, p1, t, 0, 20, 0, 0, 0>>) :
        p0 \in {17, 1}, p1 \in {0, 1}, t \in {22, 25}}
      \cup {StateFrame(AC, STATUS, <<p0, m, f, 0, 24, 26, 0, 0>>) :
                p0 \in {16, 0}, m \in {0, 2}, f \in {0, 2}}
      \cup {StateFrame(VENT, STATUS, <<p0, m, f, 0, 0, 0, 0, 0>>) :
                p0 \in {17, 0}, m \in {1, 2}, f \in {0, 64, 128}}
      \cup {LightFrame(0, 255, 0), LightFrame(0, 255, 255)}
      \cup {OutletFrame(255)}
      \cup {InGas0, StateFrame(GAS, ON, Zero8)}
      \cup {EVFrame(0, 0), EVFrame(2, 3)}

\* nothing learned: the class level dicts of a process that decoded nothing
NothingLearned ==
    [light |-> EmptyDict, outlet |-> EmptyDict, thermostat |-> EmptyDict,
     vent |-> EmptyDict, ev |-> EmptyDict]

\* the channels an entity exists for once the frame has been decoded
ChannelsOf(packet) ==
    LET t == device_type(packet)
        l == parse_state(packet, NothingLearned).learned
    IN  IF t = LIGHT THEN l.light[device_id(packet)].ids
        ELSE IF t = OUTLET THEN l.outlet[device_id(packet)].ids
        ELSE {-1}

\* the commands the entity of a device type offers, <<attribute, value>>;
\* power and away take 1 for True and 0 for False
CommandsOf(type) ==
    IF type = THERMOSTAT
    THEN {<<"power", 0>>, <<"power", 1>>, <<"away", 0>>, <<"away", 1>>,
          <<"target_temp", 18>>, <<"target_temp", 30>>}
    ELSE IF type = AC
    THEN {<<"power", 0>>, <<"power", 1>>, <<"target_temp", 18>>, <<"target_temp", 30>>}
           \cup {<<"oper_mode", m>> : m \in OperModeValues}
           \cup {<<"fan_mode", f>> : f \in FanModeValues}
    ELSE IF type = VENT
    THEN {<<"power", 0>>, <<"power", 1>>}
           \cup {<<"vent_mode", m>> : m \in VentModeValues}
           \cup {<<"fan_speed", f>> : f \in FanSpeedValues}
    ELSE IF type = LIGHT
    THEN {<<"power", 0>>, <<"power", 1>>, <<"brightness", 5>>, <<"brightness", 9>>}
    ELSE {<<"power", 0>>, <<"power", 1>>}

\* self.packet.make_...(value) of the entity that holds the frame
EncodeCommand(packet, sub, attr, value) ==
    LET t == device_type(packet)
        addr == address(packet)
        pl == payload(packet)
        on == value = 1
    IN  IF t = THERMOSTAT
        THEN (IF attr = "power" THEN ThermostatMakePowerStatus(addr, pl, on)
              ELSE IF attr = "away" THEN ThermostatMakeAwayStatus(addr, pl, on)
              ELSE ThermostatMakeTargetTemp(addr, pl, value))
        ELSE IF t = AC
        THEN (IF attr = "power" THEN ACMakePowerStatus(addr, pl, on)
              ELSE IF attr = "oper_mode" THEN ACMakeOperMode(addr, pl, value)
              ELSE IF attr = "fan_mode" THEN ACMakeFanMode(addr, pl, value)
              ELSE ACMakeTargetTemp(addr, pl, value))
        ELSE IF t = VENT
        THEN (IF attr = "power" THEN VentMakePowerStatus(addr, pl, on)
              ELSE IF attr = "vent_mode" THEN VentMakeVentMode(addr, pl, value)
              ELSE VentMakeFanSpeed(addr, pl, value))
        ELSE IF t = LIGHT
        THEN (IF attr = "power" THEN LightMakePowerStatus(addr, pl, <<sub>>, on)
              ELSE LightMakeBrightnessStatus(addr, pl, <<sub>>, value))
        ELSE IF t = OUTLET THEN LightMakePowerStatus(addr, pl, <<sub>>, on)
        ELSE IF t = GAS THEN GasMakePowerStatus(addr, pl, on)
        ELSE EVMakePowerStatus(addr, pl, on)

EncodeInit ==
    /\ ClientInit
    /\ ExtractorIdle
    /\ ListenIdle
    /\ calc = NoCalc
    /\ call_log = NoCalls
    /\ enc \in {[NoEnc EXCEPT !.last = f, !.sub = sub, !.stage = "held"] :
                   f \in LastKnownFrames, sub \in 0..7} \cup
                {[NoEnc EXCEPT !.last = f, !.stage = "held"] : f \in LastKnownFrames}
    /\ enc.sub \in ChannelsOf(enc.last)

\* the entity builds a command of the frame it holds; an encoder that
\* returns None builds nothing
MakeCommand(attr, value) ==
    /\ enc.stage = "held"
    /\ <<attr, value>> \in CommandsOf(device_type(enc.last))
    /\ LET body == EncodeCommand(enc.last, enc.sub, attr, value)
       IN  enc' = [enc EXCEPT !.attr = attr, !.value = value,
                              !.body = IF body = None THEN <<>> ELSE body,
                              !.stage = IF body = None THEN "refused" ELSE "made"]
    /\ UNCHANGED <<extractVars, listenVars, clientVars, moreLearnedVars, requested,
                   stopped, calc, call_log>>

\* the frame of the command goes through parse_state in the process that
\* decoded the frame the entity holds
DecodeCommand ==
    /\ enc.stage = "made"
    /\ LET learned == parse_state(enc.last, NothingLearned).learned
           r == parse_state(OutFrameOf(enc.body), learned)
       IN  enc' = [enc EXCEPT !.stage = "decoded", !.raised = r.raised,
                              !.decoded = r.packets]
    /\ UNCHANGED <<extractVars, listenVars, clientVars, moreLearnedVars, requested,
                   stopped, calc, call_log>>

EncodeNext ==
    \/ \E attr \in {"power", "away", "target_temp", "oper_mode", "fan_mode",
                     "vent_mode", "fan_speed", "brightness"},
          value \in 0..255 : MakeCommand(attr, value)
    \/ DecodeCommand

EncodeSpec == EncodeInit /\ [][EncodeNext]_vars

\* ------------------------------------------------------------------------
\* Receive runs: _listen hands the frames of each chunk to _process_packet,
\* which decodes them and calls the device callbacks
\* ------------------------------------------------------------------------
\* a _process_packet that skips the test of line 96
ChecksumDialect_any(packet) == TRUE

\* line 96: verify_checksum(packet)
ChecksumDialect(packet) == checksum_ok[packet]

\* the frame went through parse_data of its decoder class
Decoded(packet, r) ==
    /\ ~r.raised
    /\ r.packets # <<NoDevice>>
    /\ ParseType(packet) \in DeviceClassMap

\* what a decoded frame shows of its device, read off the payload:
\* light: the channels that were 0xFF in a frame that was not all 0xFF;
\* thermostat: the target byte of the last frame with the power flag on;
\* vent: a CO2 reading above zero was seen;
\* elevator: the floor of the last frame with a floor byte above zero
Observe(obs, packet) ==
    LET id == device_id(packet)
        pl == payload(packet)
        t == device_type(packet)
        on == IF AllFF(pl) THEN {} ELSE {i \in 0..7 : pl[i + 1] = 255}
    IN  IF t = LIGHT
        THEN [obs EXCEPT !.light = DictPut(@, id, DictGet(@, id, {}) \cup on)]
        ELSE IF t = THERMOSTAT /\ (pl[1] \div 16) = 1
        THEN [obs EXCEPT !.thermostat = DictPut(@, id, pl[3])]
        ELSE IF t = VENT /\ (pl[5] * 100) + pl[6] > 0
        THEN [obs EXCEPT !.vent = DictPut(@, id, TRUE)]
        ELSE IF t = EV /\ pl[2] > 0
        THEN [obs EXCEPT !.ev = DictPut(@, id,
                 IF (pl[2] \div 16) = 8 THEN <<TRUE, pl[2] % 16>> ELSE <<FALSE, pl[2]>>)]
        ELSE obs

\* door phone: the first src2 of the entrance that is not reserved
ObserveDoor(obs, packet) ==
    LET room == entrance_type(packet)
        src2 == B(packet, 11)
    IN  IF room \notin DOMAIN obs.door /\ src2 \notin ReservedSrc2
        THEN [obs EXCEPT !.door = DictPut(@, room, src2)]
        ELSE obs

HasDevice(d) == d # NoDevice

\* the device id of an entrance: the frame type byte and the entrance
DoorId(room) == <<121, IF room = "private" THEN 0 ELSE 1>>

\* the devices the decoders keep learned state for
KnownDevices ==
    DOMAIN light_data \cup DOMAIN outlet_data \cup DOMAIN thermostat_data
      \cup DOMAIN vent_data \cup DOMAIN ev_data
      \cup {DoorId(room) : room \in DOMAIN observed.door}

\* the devices with learned state the frames of a chunk come from
DevicesOf(chunk) ==
    {device_id(chunk[k]) : k \in {j \in 1..Len(chunk) :
        checksum_ok[chunk[j]]
          /\ ParseType(chunk[j]) \in {LIGHT, OUTLET, THERMOSTAT, VENT, EV}}}
      \cup {DoorId(entrance_type(chunk[k])) : k \in {j \in 1..Len(chunk) :
               ~checksum_ok[chunk[j]] /\ crc_ok[chunk[j]]
                 /\ B(chunk[j], 11) \notin ReservedSrc2}}

\* a loop that an exception of the callback leaves
Deliver_abort(packets, raising) ==
    LET with_device == SelectSeq(packets, HasDevice)
    IN  IF raising /\ with_device # <<>> THEN <<with_device[1]>> ELSE with_device

\* lines 108-122: the records the callback is called with, in call order;
\* packets without a device are skipped, an exception of the callback is
\* logged and the loop goes on (raising: the callback raises)
Deliver(packets, raising) == SelectSeq(packets, HasDevice)

\* _listen: receive() returned data and extract_packets cut these frames;
\* at most n devices answer on the bus
ListenUpTo(chunk, n) ==
    /\ Running
    /\ is_connected
    /\ rx_todo = <<>>
    /\ Cardinality(KnownDevices \cup DevicesOf(chunk)) <= n
    /\ rx_todo' = chunk
    /\ UNCHANGED <<extractVars, auxVars, clientVars, moreLearnedVars, rx_last, observed>>

Listen(chunk) == ListenUpTo(chunk, MaxDevices)

\* _listen: the next frame of the chunk goes through _process_packet; an
\* exception that leaves _process_packet ends the for loop of _listen
ListenProcessWith(raising) ==
    /\ Running
    /\ rx_todo # <<>>
    /\ LET packet == Head(rx_todo)
           call == [NoCall EXCEPT !.packet = packet]
       IN  IF ChecksumDialect(packet)
           THEN LET r == parse_state(packet, Learned)
                IN  /\ light_data' = r.learned.light
                    /\ thermostat_data' = r.learned.thermostat
                    /\ outlet_data' = r.learned.outlet
                    /\ vent_data' = r.learned.vent
                    /\ ev_data' = r.learned.ev
                    /\ door_data' = door_data
                    /\ last_packet' = IF ~r.raised /\ r.packets # <<>>
                                      THEN packet ELSE last_packet
                    /\ rx_last' = [call EXCEPT !.raised = r.raised,
                                               !.warned = r.warned,
                                               !.parsed = Len(r.packets),
                                               !.returned = r.packets,
                                               !.callbacks = Deliver(r.packets, raising)]
                    /\ observed' = IF Decoded(packet, r)
                                   THEN Observe(observed, packet) ELSE observed
                    /\ rx_todo' = IF r.raised THEN <<>> ELSE Tail(rx_todo)
           ELSE IF crc_ok[packet]
           THEN LET devices == DoorPhoneParseState(packet)
                IN  /\ rx_last' = [call EXCEPT !.parsed = Len(devices),
                                               !.returned = devices,
                                               !.callbacks = Deliver(devices, raising)]
                    /\ rx_todo' = Tail(rx_todo)
                    /\ door_data' = DoorPhoneLearn(packet, door_data)
                    /\ observed' = ObserveDoor(observed, packet)
                    /\ UNCHANGED <<light_data, thermostat_data, outlet_data,
                                   vent_data, ev_data, last_packet>>
           ELSE /\ rx_last' = call
                /\ rx_todo' = Tail(rx_todo)
                /\ UNCHANGED <<light_data, thermostat_data, moreLearnedVars,
                               last_packet, observed>>
    /\ UNCHANGED <<extractVars, requested, stopped, calc, enc, items, packet_queue,
                   cur, pc, polled, is_connected, door_todo, match_state>>

\* _process_packet of the client gateway.async_start set up: one callback
ListenProcess ==
    /\ \E raising \in BOOLEAN : ListenProcessWith(raising)
    /\ UNCHANGED call_log

ListenNext ==
    \/ Reconnect
    \/ \E chunk \in Chunks : Listen(chunk)
    \/ ListenProcess

ListenSpec == Init /\ [][ListenNext]_vars

\* ------------------------------------------------------------------------
\* Receive runs with several devices: two lights, an outlet and a thermostat,
\* three of them in room 0
\* ------------------------------------------------------------------------
SeveralFrames ==
    {LightFrame(0, 0, 255), LightFrame(0, 255, 0), LightFrame(0, 0, 5),
     LightFrame(1, 0, 255), OutletFrame(255), OutletFrame(0),
     ThermostatFrame(17, 25), ThermostatFrame(1, 30)}

SeveralNext ==
    \/ Reconnect
    \/ \E f \in SeveralFrames : ListenUpTo(<<f>>, MaxDevices + 3)
    \/ ListenProcess

SeveralSpec == Init /\ [][SeveralNext]_vars

\* ------------------------------------------------------------------------
\* Callback runs: several callbacks are registered (add_device_callback) and
\* some of them raise
\* ------------------------------------------------------------------------
\* device_callbacks, in registration order
Callbacks == 1..MaxCallbacks

\* the two loops of lines 108-122 left by the first exception of a callback
Calls_abort(packets, raisers) ==
    LET with_device == SelectSeq(packets, HasDevice)
        m == MaxCallbacks
        all == [i \in 1..(Len(with_device) * m) |->
                   [record |-> ((i - 1) \div m) + 1,
                    device |-> with_device[((i - 1) \div m) + 1],
                    callback |-> ((i - 1) % m) + 1,
                    raised |-> (((i - 1) % m) + 1) \in raisers]]
        bad == {i \in 1..Len(all) : all[i].raised}
    IN  IF bad = {} THEN all
        ELSE SubSeq(all, 1, CHOOSE i \in bad : \A j \in bad : i <= j)

\* lines 108-122: for every returned packet with a device, in order, every
\* callback is awaited in registration order; an exception of a callback is
\* caught and logged (raisers: the callbacks that raise). One entry per call
Calls(packets, raisers) ==
    LET with_device == SelectSeq(packets, HasDevice)
        m == MaxCallbacks
    IN  [i \in 1..(Len(with_device) * m) |->
            [record |-> ((i - 1) \div m) + 1,
             device |-> with_device[((i - 1) \div m) + 1],
             callback |-> ((i - 1) % m) + 1,
             raised |-> (((i - 1) % m) + 1) \in raisers]]

\* the chunks of a callback run: a thermostat frame (two records and more), a
\* gas frame followed by a light frame, a door phone ring, a frame that is
\* dropped followed by a gas frame
CallbackChunks ==
    {<<ThermostatFrame(17, 25)>>, <<InGas0, LightFrame(0, 0, 255)>>, <<InGas0>>,
     <<InDoorRing>>, <<InBad, InGas0>>, <<EVFrame(2, 3)>>}

\* _process_packet for the next frame of the chunk, with the registered
\* callbacks
ListenProcessCallbacks ==
    \E raisers \in SUBSET Callbacks :
        /\ ListenProcessWith(1 \in raisers)
        /\ call_log' = [raisers |-> raisers, calls |-> Calls(rx_last'.returned, raisers)]

CallbackNext ==
    \/ Reconnect
    \/ \E chunk \in CallbackChunks : Listen(chunk)
    \/ ListenProcessCallbacks

CallbackSpec == Init /\ [][CallbackNext]_vars

\* the event loop keeps scheduling _process_queue
LiveSpec == Init /\ [][Next]_vars /\ WF_vars(SendActivity)

\* ------------------------------------------------------------------------
\* Properties of the delivery loop
\* ------------------------------------------------------------------------
InQueue(i) == \E k \in 1..Len(packet_queue) : packet_queue[k] = i

\* the item is neither queued nor held by _process_queue
Gone(i) == ~InQueue(i) /\ cur # i

Terminal(i) == items[i].result \in {"done", "success", "failed"}

ChecksumItem(i) == ~crc_ok[items[i].packet]

\* item j is handed to connection.send in this step
Transmits(j) == items'[j].sends > items[j].sends

\* C1: a checksum-dialect command that is never acknowledged is sent once and
\* then resent exactly max_retries times: it is never sent more often, it is
\* marked failed with exactly max_retries + 1 sends behind it, and a failed
\* command is neither queued nor held, so it is not sent again.
C1_RetryCapExact ==
    \A i \in 1..Len(items) :
        ChecksumItem(i) =>
            /\ items[i].sends <= max_retries + 1
            /\ (Gone(i) /\ items[i].result # "success") =>
                   (items[i].result = "failed" /\ items[i].sends = max_retries + 1)
            /\ items[i].result = "failed" =>
                   (Gone(i) /\ items[i].sends = max_retries + 1)

\* a command has failed after five sends that all reached the transport
C1_Witness ==
    \E i \in 1..Len(items) :
        /\ ChecksumItem(i)
        /\ items[i].result = "failed"
        /\ items[i].sends = max_retries + 1
        /\ ~items[i].lost

\* C2: when the ack wait of a command that was written to the transport
\* inspects last_packet and finds a frame of the command's device that was
\* decoded during this wait, the command is acknowledged (it is not handed to
\* the retry path).
C2_MatchAcknowledges ==
    [][(pc = "wait" /\ ~items[cur].lost /\ match_state = "seen" /\ WaitPoll)
          => items'[cur].result = "success"]_vars

\* C3: a command is sent only when every command enqueued before it has
\* reached its end (acknowledged or failed).
C3_StrictFifo ==
    [][\A j \in 1..Len(items) :
          Transmits(j) => \A i \in 1..(j - 1) : Terminal(i)]_vars

\* C4: nothing is sent while a command is in its ack wait or in its retry
\* backoff: every send starts from the idle sender, which holds no command.
C4_OneInFlight ==
    [][\A j \in 1..Len(items) :
          Transmits(j) => (pc = "get" /\ cur = 0)]_vars

\* a command is in its ack wait while another one is queued behind it
C4_Witness ==
    /\ pc = "wait"
    /\ cur # 0
    /\ packet_queue # <<>>
    /\ items[cur].sends >= 1

\* C5: a CRC-dialect frame is sent at most once, is never retried, is never
\* held for an ack wait, and is done as soon as it has been sent.
C5_CrcSelfAck ==
    \A i \in 1..Len(items) :
        ~ChecksumItem(i) =>
            /\ items[i].sends <= 1
            /\ items[i].retries = 0
            /\ cur # i
            /\ items[i].sends = 1 => (items[i].result = "done" /\ ~InQueue(i))
            /\ items[i].sends = 0 => (items[i].result = "queued" /\ InQueue(i))

\* a door phone frame has been sent and a frame has since been decoded
C5_Witness ==
    \E i \in 1..Len(items) :
        /\ ~ChecksumItem(i)
        /\ items[i].sends = 1
        /\ items[i].result = "done"
        /\ last_packet # None

\* C6: under a sender that keeps being scheduled, every command that was put
\* on the queue reaches a terminal result and is then neither queued nor held.
C6_EventuallyTerminal ==
    \A i \in 1..MaxCmds :
        (Len(items) >= i) ~> (Len(items) >= i /\ Terminal(i) /\ Gone(i))

\* a command reached its end although one of its sends wrote nothing
C6_Witness ==
    \E i \in 1..Len(items) :
        /\ ChecksumItem(i)
        /\ Terminal(i)
        /\ Gone(i)
        /\ items[i].lost

\* C7: the sender survives a failed delivery: a command that is enqueued
\* after another command has failed is still sent.
C7_SenderSurvivesFailure ==
    \A j \in 1..MaxCmds :
        (Len(items) >= j /\ items[j].after_failure)
            ~> (Len(items) >= j /\ items[j].sends >= 1)

\* a command enqueued after a failure has been sent
C7_Witness ==
    \E j \in 1..Len(items) :
        /\ items[j].after_failure
        /\ items[j].sends >= 1

\* C8: sends that wrote nothing to the transport do not count against the
\* retry budget: a command is declared failed only after max_retries + 1
\* sends that were all written.
C8_LostSendsNotCounted ==
    \A i \in 1..Len(items) :
        items[i].result = "failed" => ~items[i].lost

\* C9: when a frame of the pending command's device was decoded during the
\* ack wait of a command that was written to the transport, and was replaced
\* by frames of other devices before the next inspection, the wait still ends
\* with the command acknowledged.
C9_NoLostAck ==
    [][(pc = "wait" /\ ~items[cur].lost /\ match_state = "overwritten" /\ pc' # "wait")
          => items'[cur].result = "success"]_vars

\* ------------------------------------------------------------------------
\* Properties of the extractor
\* ------------------------------------------------------------------------
\* C10: once the whole stream has been fed, in whatever chunks, the frames
\* extracted are those a fresh extractor returns for the stream as one chunk.
C10_ChunkIndependent ==
    fed = Len(stream) => extracted = extract_packets(<<>>, stream).packets

\* C11: when the stream is garbage followed by one valid frame and reaches
\* extract_packets as a single chunk, the call returns exactly that frame and
\* keeps nothing of the garbage.
C11_NoiseThenFrame ==
    [][\A g \in GarbageSegs : \A f \in FrameSegs :
          (stream = g \o f /\ fed = 0 /\ fed' = Len(stream))
              => (extracted' = <<f>> /\ buffer' = <<>>)]_vars

\* the stream is a run of well-formed frames, back to back
FramesOnly(s) ==
    /\ s # <<>>
    /\ Len(s) % packet_length = 0
    /\ \A j \in 0..((Len(s) \div packet_length) - 1) :
           SubSeq(s, (j * packet_length) + 1, (j + 1) * packet_length) \in FrameSegs

\* the first n frames of such a stream
FirstFrames(s, n) ==
    [j \in 1..n |-> SubSeq(s, ((j - 1) * packet_length) + 1, j * packet_length)]

\* C12: for a stream of back to back well-formed frames, after any number of
\* chunks the frames returned so far are exactly the frames whose last byte
\* has been fed, in stream order, and the buffer holds exactly the bytes of
\* the frame that is still incomplete.
C12_FramesInOrder ==
    FramesOnly(stream) =>
        /\ extracted = FirstFrames(stream, fed \div packet_length)
        /\ buffer = SubSeq(stream, ((fed \div packet_length) * packet_length) + 1, fed)

\* one frame has been returned and part of the next one is retained
C12_Witness ==
    /\ FramesOnly(stream)
    /\ Len(extracted) = 1
    /\ buffer # <<>>
    /\ extracted[1] = SegMarkers

\* C13: after every call the retained buffer holds fewer than packet_length
\* bytes, and so at most max_buffer_size bytes.
C13_BufferBounded ==
    /\ Len(buffer) < packet_length
    /\ packet_length <= max_buffer_size
    /\ Len(buffer) <= max_buffer_size

\* a call has cut a frame out of the buffer and kept bytes behind it
C13_Witness ==
    /\ fed > packet_length
    /\ extracted # <<>>
    /\ buffer # <<>>

\* ------------------------------------------------------------------------
\* Properties of the receive path
\* ------------------------------------------------------------------------
\* the frame the last call of _process_packet got was checksum valid and
\* went through parse_data of the decoder of this type
DecodedAs(t) ==
    /\ rx_last.packet # None
    /\ checksum_ok[rx_last.packet]
    /\ ~rx_last.raised
    /\ ParseType(rx_last.packet) = t
    /\ ~(packet_type(rx_last.packet) = RECV /\ command(rx_last.packet) = SCAN)

\* the last call delivered a record with this sub id to the callbacks
Delivered(sub) ==
    \E k \in 1..Len(rx_last.callbacks) : rx_last.callbacks[k].sub_id = sub

\* C14: a frame that fails both verify_checksum and verify_crc has no effect:
\* no callback is called, nothing is raised, the rest of the chunk goes on,
\* and last_packet (all the ack wait of a pending command reads), the learned
\* state and the queue are as before.
C14_InvalidFrameNoEffect ==
    [][(rx_todo # <<>> /\ ~checksum_ok[Head(rx_todo)] /\ ~crc_ok[Head(rx_todo)])
          => /\ rx_last'.callbacks = <<>>
             /\ ~rx_last'.raised
             /\ rx_todo' = Tail(rx_todo)
             /\ UNCHANGED <<last_packet, light_data, outlet_data, thermostat_data,
                            vent_data, ev_data, items, packet_queue, cur, pc,
                            polled>>]_vars

\* an invalid frame was the last one processed, after a frame that was
\* decoded and left learned state
C14_Witness ==
    /\ rx_last.packet = InBad
    /\ last_packet # None
    /\ KnownDevices # {}

\* C15: whatever happens to the frame that is processed, the frames behind it
\* in the same chunk stay in line for _process_packet.
C15_OnlyOffenderSkipped ==
    [][rx_todo # <<>> => rx_todo' = Tail(rx_todo)]_vars

\* C16: for a checksum valid frame of a type code device_class_map does not
\* have, nothing is raised, a warning is logged and parse_state returns a
\* record.
C16_UnknownTypeRecord ==
    (/\ rx_last.packet # None
     /\ checksum_ok[rx_last.packet]
     /\ ParseType(rx_last.packet) # -1
     /\ ParseType(rx_last.packet) \notin DeviceClassMap)
        => (~rx_last.raised /\ rx_last.warned /\ rx_last.parsed > 0)

\* C17: in every step each device keeps its learned state and adds to it:
\* the channel sets and the brightness levels only grow, the CO2 flag and the
\* floor flag never go back to false.
C17_LearnedMonotone ==
    [][/\ \A id \in DOMAIN light_data :
             /\ id \in DOMAIN light_data'
             /\ light_data[id].ids \subseteq light_data'[id].ids
             /\ light_data[id].bri_lv \subseteq light_data'[id].bri_lv
       /\ \A id \in DOMAIN outlet_data :
             /\ id \in DOMAIN outlet_data'
             /\ outlet_data[id].ids \subseteq outlet_data'[id].ids
       /\ \A id \in DOMAIN vent_data :
             /\ id \in DOMAIN vent_data'
             /\ vent_data[id] => vent_data'[id]
       /\ \A id \in DOMAIN ev_data :
             /\ id \in DOMAIN ev_data'
             /\ ev_data[id].avil_floor => ev_data'[id].avil_floor]_vars

\* the elevator has shown a floor and then sent a frame with floor 0
C17_Witness ==
    /\ rx_last.packet = EVFrame(0, 0)
    /\ \E id \in DOMAIN ev_data : ev_data[id].avil_floor

\* C18: a decoded light frame delivers a record for channel i exactly when
\* channel i was 0xFF in this or an earlier decoded frame of the device that
\* was not all 0xFF; the record says power on for byte 0xFF and power off for
\* byte 0x00.
C18_LightChannelLearning ==
    DecodedAs(LIGHT) =>
        LET pl == payload(rx_last.packet)
            seen == DictGet(observed.light, device_id(rx_last.packet), {})
        IN  \A i \in 0..7 :
                /\ Delivered(ToString(i)) <=> i \in seen
                /\ \A k \in 1..Len(rx_last.callbacks) :
                       rx_last.callbacks[k].sub_id = ToString(i) =>
                           /\ pl[i + 1] = 255 => rx_last.callbacks[k].state.power
                           /\ pl[i + 1] = 0 => ~rx_last.callbacks[k].state.power

\* channel 2 was learned and the last frame reports 0x00 for it
C18_Witness ==
    /\ rx_last.packet = LightFrame(0, 0, 0)
    /\ 2 \in DictGet(observed.light, <<LIGHT, 0>>, {})
    /\ Delivered("2")

\* C19: the target temperature a decoded thermostat frame reports is the
\* target byte of the last decoded frame of the device with the power flag
\* on, 22 when there was none.
C19_StickyTarget ==
    DecodedAs(THERMOSTAT) =>
        rx_last.callbacks[1].state.target_temp
            = DictGet(observed.thermostat, device_id(rx_last.packet), ThermostatInit)

\* a powered-off frame with another target byte follows a powered-on frame
C19_Witness ==
    /\ rx_last.packet = ThermostatFrame(1, 30)
    /\ DictGet(observed.thermostat, <<THERMOSTAT, 0>>, ThermostatInit) = 25

\* C20: a decoded vent frame delivers a CO2 record exactly when this or an
\* earlier decoded frame of the device had a CO2 reading above zero.
C20_StickyCO2 ==
    DecodedAs(VENT) =>
        (Delivered("CO2") <=> DictGet(observed.vent, device_id(rx_last.packet), FALSE))

\* a frame with CO2 reading zero follows one with a reading
C20_Witness ==
    /\ rx_last.packet = VentFrame(1, 0, 0)
    /\ DictGet(observed.vent, <<VENT, 0>>, FALSE)
    /\ Delivered("CO2")

\* C21: a decoded elevator frame delivers a floor record exactly when this or
\* an earlier decoded frame of the device had a floor byte above zero: none
\* for floor byte zero before any floor was seen, one for every frame after.
C21_StickyFloor ==
    DecodedAs(EV) =>
        (Delivered("floor") <=> DictGet(observed.ev, device_id(rx_last.packet), None) # None)

\* an idle frame with floor byte zero follows a frame that showed a floor,
\* and one came before any floor was seen
C21_Witness ==
    /\ rx_last.packet = EVFrame(0, 0)
    /\ DictGet(observed.ev, <<EV, 0>>, None) # None
    /\ Delivered("floor")
    /\ Len(rx_last.callbacks) = 3

\* C22: once a floor above zero was seen, the floor record of a decoded frame
\* with floor byte zero shows the last floor above zero of the device.
C22_LastKnownFloor ==
    (/\ DecodedAs(EV)
     /\ payload(rx_last.packet)[2] = 0
     /\ DictGet(observed.ev, device_id(rx_last.packet), None) # None)
        => \E k \in 1..Len(rx_last.callbacks) :
               /\ rx_last.callbacks[k].sub_id = "floor"
               /\ rx_last.callbacks[k].state.state
                      = observed.ev[device_id(rx_last.packet)]

\* C23: once a source-secondary byte that is not reserved was seen for an
\* entrance, the phone id of the entrance is that first byte whatever frames
\* of the entrance follow, and the commands built for it carry it.
C23_FirstPhoneIdKept ==
    \A room \in DOMAIN observed.door :
        /\ door_data[room] = observed.door[room]
        /\ make_door_base(InDoorRing, door_data[room])[10] = observed.door[room]

\* ------------------------------------------------------------------------
\* Properties of the command encoders and of send_packet
\* ------------------------------------------------------------------------
\* the indices of the door phone frames in items, in creation order
DoorItems == SelectSeq([k \in 1..Len(items) |-> k],
                       LAMBDA k : ~ChecksumItem(k))

\* the two command bytes of the door phone frames enqueued so far, followed
\* by those of the bodies send_packet(list) has still to enqueue
DoorEvents ==
    [k \in 1..Len(DoorItems) |->
        <<B(items[DoorItems[k]].packet, 15), B(items[DoorItems[k]].packet, 16)>>]
      \o [k \in 1..Len(door_todo) |-> <<door_todo[k][14], door_todo[k][15]>>]

\* from index k on, evs is made of whole sequences press, open, hang-up and
\* press, hang-up
RECURSIVE WholeSequences(_, _)
WholeSequences(evs, k) ==
    IF k > Len(evs) THEN TRUE
    ELSE IF k + 2 <= Len(evs) /\ evs[k] = <<3, 0>> /\ evs[k + 1] = <<36, 0>>
            /\ evs[k + 2] = <<4, 0>>
    THEN WholeSequences(evs, k + 3)
    ELSE IF k + 1 <= Len(evs) /\ evs[k] = <<3, 0>> /\ evs[k + 1] = <<4, 0>>
    THEN WholeSequences(evs, k + 2)
    ELSE FALSE

InvalidRequests ==
    {"gas_on", "ev_off", "door_off", "light_no_sub", "brightness_no_sub",
     "outlet_no_sub"}

\* C25: a request for gas valve power on, elevator power off, door phone
\* power off, or a light or outlet command of a device without sub id puts
\* nothing on the queue and starts no sequence; gas valve power off puts one
\* frame on the queue, and its command byte is OFF.
C25_InvalidNeverEnqueued ==
    [][/\ (requested' \in InvalidRequests /\ requested' # requested)
            => UNCHANGED <<items, packet_queue, door_todo>>
       /\ (requested' = "gas_off" /\ requested' # requested)
            => /\ Len(items') = Len(items) + 1
               /\ packet_queue' = Append(packet_queue, Len(items'))
               /\ command(items'[Len(items')].packet) = OFF
               /\ device_type(items'[Len(items')].packet) = GAS]_vars

\* the valve was told to close and then to open: the queue holds the one
\* OFF frame
C25_Witness ==
    /\ requested = "gas_on"
    /\ Len(items) = 1
    /\ packet_queue = <<1>>
    /\ command(items[1].packet) = OFF

\* C26: every frame on the queue is whole: it has the length of a frame,
\* begins with AA 55, ends with 0D 0D, and the trailer of its dialect
\* verifies (verify_checksum for type 0x30, verify_crc for type 0x79).
C26_EnqueuedWellFormed ==
    \A i \in 1..Len(items) :
        LET p == items[i].packet
        IN  /\ Len(p) >= packet_length
            /\ SubSeq(p, 1, 2) = PREFIX_HEADER
            /\ SubSeq(p, Len(p) - 1, Len(p)) = SUFFIX_HEADER
            /\ B(p, 2) \in {48, 121}
            /\ B(p, 2) = 48 => verify_checksum(p)
            /\ B(p, 2) = 121 => verify_crc(p)

\* the list whose first body has 2 bytes left its second frame alone on the
\* queue, and a gas valve frame followed it
C26_Witness ==
    /\ Len(items) = 2
    /\ door_todo = <<>>
    /\ B(items[1].packet, 2) = 121
    /\ B(items[2].packet, 2) = 48

\* C29: the frames of a chunk go through _process_packet one at a time in
\* chunk order, and for each the callback is called once for every record
\* with a device the decoder returned, in the decoder's order, whether or
\* not the callback raises; a result without a device record calls nothing.
C29_OneEventPerRecord ==
    [][(rx_todo # <<>> /\ rx_todo' # rx_todo) =>
          /\ rx_last'.packet = Head(rx_todo)
          /\ Len(rx_last'.callbacks)
                = Cardinality({k \in 1..Len(rx_last'.returned) :
                                  rx_last'.returned[k] # NoDevice})
          /\ rx_last'.callbacks = SelectSeq(rx_last'.returned, LAMBDA d : d # NoDevice)
          /\ (\A k \in 1..Len(rx_last'.returned) : rx_last'.returned[k] = NoDevice)
                => rx_last'.callbacks = <<>>]_vars

\* the first frame of a chunk of two gave its one event, the second waits;
\* and before that a frame gave three events
C29_Witness ==
    /\ rx_todo # <<>>
    /\ rx_last.packet = InGas0
    /\ Len(rx_last.callbacks) = 1
    /\ KnownDevices # {}

\* the learned state of the device of a frame as the decoders hold it
LearnedEntry(packet) ==
    LET t == ParseType(packet)
        id == device_id(packet)
    IN  IF t = LIGHT THEN <<light_data[id]>>
        ELSE IF t = OUTLET THEN <<outlet_data[id]>>
        ELSE IF t = THERMOSTAT THEN <<thermostat_data[id]>>
        ELSE IF t = VENT THEN <<vent_data[id]>>
        ELSE IF t = EV THEN <<ev_data[id]>>
        ELSE <<>>

\* C27: replaying the frame the last call decoded, together with the learned
\* state of its device as it is after that call, in a process that has
\* decoded nothing yet, gives the records the call delivered.
C27_RestoreRoundTrip ==
    (/\ rx_last.packet # None
     /\ checksum_ok[rx_last.packet]
     /\ ~rx_last.raised
     /\ ParseType(rx_last.packet) \in {LIGHT, OUTLET, THERMOSTAT, VENT, EV, GAS})
        => RestoreState(rx_last.packet, LearnedEntry(rx_last.packet))
              = rx_last.callbacks

\* C28: for every byte sequence of 17 bytes or more, the sequence followed
\* by its calculate_checksum and the suffix is a frame verify_checksum
\* accepts; and a frame verify_checksum accepts is rejected after any one of
\* its bytes has taken another value.
C28_ChecksumRoundTrip ==
    /\ Len(calc.data) >= 17 => calc.stage # "none"
    /\ (calc.stage = "encoded" /\ Len(calc.data) >= 17) => calc.ok
    /\ calc.stage = "changed" => ~calc.ok

\* C30: once stop() has returned no frame is handed to the transport, no
\* frame goes through _process_packet (so no callback is called, and
\* last_packet and the learned state stay), and the connection state the
\* tasks drive does not change, whatever was queued, waited for or backed
\* off.
C30_StopHalts ==
    [][stopped =>
          /\ \A i \in 1..Len(items) : items'[i].sends = items[i].sends
          /\ UNCHANGED <<last_packet, light_data, thermostat_data, outlet_data,
                         vent_data, ev_data, door_data, rx_last, is_connected,
                         cur, pc>>]_vars

\* stop() came during an ack wait or a backoff with a command still queued
C30_Witness ==
    /\ stopped
    /\ pc \in {"wait", "backoff"}
    /\ packet_queue # <<>>
    /\ \E i \in 1..Len(items) : items[i].sends > 0

\* the channel set the decoders have learned for the device of a light or
\* outlet frame
LearnedIds(light, outlet, packet) ==
    IF ParseType(packet) = LIGHT
    THEN DictGet(light, device_id(packet), LightInit).ids
    ELSE DictGet(outlet, device_id(packet), OutletInit).ids

\* C31: when a checksum valid light or outlet frame whose 8 payload bytes are
\* all 0xFF goes through _process_packet, the channel set of its device is
\* afterwards what it was before (empty for a device not seen before), and
\* the records delivered are one for every channel of that set, in channel
\* order, each saying power on.
C31_AllFFGuard ==
    [][(/\ rx_todo # <<>>
        /\ rx_todo' # rx_todo
        /\ checksum_ok[Head(rx_todo)]
        /\ ParseType(Head(rx_todo)) \in {LIGHT, OUTLET}
        /\ AllFF(payload(Head(rx_todo))))
          => LET packet == Head(rx_todo)
                 before == LearnedIds(light_data, outlet_data, packet)
                 cb == rx_last'.callbacks
             IN  /\ LearnedIds(light_data', outlet_data', packet) = before
                 /\ Len(cb) = Cardinality(before)
                 /\ \A k \in 1..Len(cb) :
                        /\ \E i \in before : cb[k].sub_id = ToString(i)
                        /\ cb[k].state.power
                        /\ \A j \in 1..(k - 1) : cb[j].sub_id # cb[k].sub_id]_vars

\* an all-0xFF outlet frame was processed after channel 0 had been learned,
\* and reported that channel alone
C31_Witness ==
    /\ rx_last.packet = InOutletAllFF
    /\ DictGet(outlet_data, <<OUTLET, 0>>, OutletInit).ids = {0}
    /\ Len(rx_last.callbacks) = 1
    /\ rx_last.callbacks[1].sub_id = "0"

\* ------------------------------------------------------------------------
\* Properties of the encoders
\* ------------------------------------------------------------------------
\* the payload bytes (1..8) the decoder of the device type reads for an
\* attribute: parse_data of ThermostatPacket, ACPacket, VentPacket (power is
\* read off payload[0] and the fan speed), LightPacket and OutletPacket
OwnBytes(type, attr, sub) ==
    IF type \in {LIGHT, OUTLET} THEN {sub + 1}
    ELSE IF type = THERMOSTAT
    THEN (IF attr = "power" THEN {1} ELSE IF attr = "away" THEN {2} ELSE {3})
    ELSE IF type = AC
    THEN (IF attr = "power" THEN {1} ELSE IF attr = "oper_mode" THEN {2}
          ELSE IF attr = "fan_mode" THEN {3} ELSE {6})
    ELSE IF type = VENT
    THEN (IF attr = "power" THEN {1, 3} ELSE IF attr = "vent_mode" THEN {2} ELSE {3})
    ELSE {}

\* the payload of a command body
BodyPayload(body) == SubSeq(body, 9, 16)

\* C32: in the body an encoder built, every payload byte other than the ones
\* the decoder reads for the attribute of the command is the byte of the
\* payload of the frame the entity holds.
C32_OnlyOwnBytes ==
    enc.stage \in {"made", "decoded"} =>
        \A k \in (1..8) \ OwnBytes(device_type(enc.last), enc.attr, enc.sub) :
            BodyPayload(enc.body)[k] = payload(enc.last)[k]

\* the value the decoded records show for the attribute of the command
\* (power and away: 1 for true, 0 for false)
DecodedValue ==
    LET t == device_type(enc.last)
        k == IF t \in {LIGHT, OUTLET}
             THEN CHOOSE j \in 1..Len(enc.decoded) :
                      enc.decoded[j].sub_id = ToString(enc.sub)
             ELSE 1
        st == enc.decoded[k].state
    IN  CASE enc.attr = "power" -> IF st.power THEN 1 ELSE 0
          [] enc.attr = "away" -> IF st.away THEN 1 ELSE 0
          [] enc.attr = "target_temp" -> st.target_temp
          [] enc.attr = "oper_mode" -> st.oper_mode
          [] enc.attr = "fan_mode" -> st.fan_mode
          [] enc.attr = "vent_mode" -> st.vent_mode
          [] enc.attr = "fan_speed" -> st.fan_speed
          [] enc.attr = "brightness" -> st.brightness

\* C33: the frame of a power, mode, fan speed or set-point command decodes
\* without an exception, and the decoded records show the value that was
\* asked for.
C33_EncodeDecodeSymmetric ==
    (/\ enc.stage = "decoded"
     /\ enc.attr \in {"power", "oper_mode", "vent_mode", "fan_mode", "fan_speed",
                      "target_temp"})
        => (~enc.raised /\ DecodedValue = enc.value)

\* C34: the frame of a command carries the address of the device at bytes
\* 5-6 and 01 00 at bytes 7-8, an elevator command 01 00 at bytes 5-6 and the
\* address at bytes 7-8; the device id KocomPacket derives from the frame is
\* the device id of the frame the command was built from.
C34_OutboundAddressOrder ==
    enc.stage \in {"made", "decoded"} =>
        LET frame == OutFrameOf(enc.body)
            addr == address(enc.last)
        IN  /\ device_type(enc.last) # EV =>
                   (dest(frame) = addr /\ src(frame) = <<1, 0>>)
            /\ device_type(enc.last) = EV =>
                   (dest(frame) = <<1, 0>> /\ src(frame) = addr)
            /\ device_id(frame) = device_id(enc.last)

\* the call command of the elevator has been built
C34_Witness ==
    /\ enc.stage = "made"
    /\ device_type(enc.last) = EV
    /\ enc.attr = "power"
    /\ Len(enc.body) = 16

\* ------------------------------------------------------------------------
\* More properties of the extractor
\* ------------------------------------------------------------------------
\* C35: in every call of extract_packets the while loop ends with fewer than
\* packet_length bytes in the buffer, the test of the truncation branch
\* (len(self.buffer) > max_buffer_size) is false, and the buffer the call
\* leaves is the one the loop ended with.
C35_LoopLeavesLessThanAFrame ==
    [][fed' # fed =>
          LET data == SubSeq(stream, fed + 1, fed')
              r == ExtractLoop(buffer \o data, <<>>)
          IN  /\ Len(r.buffer) < packet_length
              /\ ~(Len(r.buffer) > max_buffer_size)
              /\ buffer' = r.buffer
              /\ Len(buffer') < packet_length]_vars

\* 21 or more bytes have arrived, no frame was found and bytes are retained
C35_Witness ==
    /\ fed >= packet_length
    /\ extracted = <<>>
    /\ buffer # <<>>
    /\ Len(buffer) < packet_length

\* ------------------------------------------------------------------------
\* Properties of the shared last_packet
\* ------------------------------------------------------------------------
\* last_packet holds a frame of the device of the pending command that was
\* decoded before the command was written for the wait that is running
StaleMatch ==
    /\ pc = "wait"
    /\ ~items[cur].lost
    /\ last_packet # None
    /\ match_state = "none"
    /\ device_id(last_packet) = device_id(items[cur].packet)

ReturnedRecords(returned) ==
    {k \in 1..Len(returned) : returned[k] # NoDevice}

\* C38: whichever callbacks raise, _process_packet calls every registered
\* callback once for every returned record that carries a device, record by
\* record and in registration order; it raises nothing itself, the frames
\* behind it in the chunk stay in line, and the receive task and the
\* connection are as before.
C38_CallbackFailureIsolated ==
    [][(rx_todo # <<>> /\ rx_todo' # rx_todo)
          => LET calls == call_log'.calls
                 n == Cardinality(ReturnedRecords(rx_last'.returned))
             IN  /\ Len(calls) = n * MaxCallbacks
                 /\ \A k \in 1..n, c \in Callbacks :
                        \E i \in 1..Len(calls) :
                            /\ calls[i].record = k
                            /\ calls[i].callback = c
                            /\ calls[i].raised = (c \in call_log'.raisers)
                 /\ \A i, j \in 1..Len(calls) :
                        i < j => \/ calls[i].record < calls[j].record
                                 \/ /\ calls[i].record = calls[j].record
                                    /\ calls[i].callback < calls[j].callback
                 /\ rx_last'.raised = FALSE => rx_todo' = Tail(rx_todo)
                 /\ UNCHANGED <<stopped, is_connected>>]_vars

\* the first callback raised on a thermostat frame: the second callback got
\* both records, and the next chunk has arrived
C38_Witness ==
    /\ call_log.raisers = {1}
    /\ rx_last.packet = ThermostatFrame(17, 25)
    /\ Len(call_log.calls) = 2 * MaxCallbacks
    /\ call_log.calls[1].raised
    /\ ~call_log.calls[2].raised
    /\ call_log.calls[2 * MaxCallbacks].record = 2
    /\ rx_todo # <<>>

\* ------------------------------------------------------------------------
\* Properties of the learned state of several devices
\* ------------------------------------------------------------------------
\* every entry of the dict other than the one of this device is kept as it is
OthersKept(before, after, id) ==
    \A b \in DOMAIN before :
        b # id => (b \in DOMAIN after /\ after[b] = before[b])

\* C39: when a frame goes through _process_packet, the learned state of every
\* device other than the device of the frame is afterwards what it was
\* before: the entries of the other devices of the same class, and all
\* entries of the other classes, whatever their room number.
C39_LearnedStateIsolated ==
    [][rx_todo # <<>> =>
          LET packet == Head(rx_todo)
              t == ParseType(packet)
              id == device_id(packet)
              own(type) == IF t = type THEN id ELSE <<-1, -1>>
          IN  /\ OthersKept(light_data, light_data', own(LIGHT))
              /\ OthersKept(outlet_data, outlet_data', own(OUTLET))
              /\ OthersKept(thermostat_data, thermostat_data', own(THERMOSTAT))
              /\ OthersKept(vent_data, vent_data', own(VENT))
              /\ OthersKept(ev_data, ev_data', own(EV))]_vars

\* the outlet of room 0 has just learned channel 0 while the light of room 0
\* knows channel 2 and a brightness level and the light of room 1 channel 2
C39_Witness ==
    /\ rx_last.packet = OutletFrame(255)
    /\ DictGet(outlet_data, <<OUTLET, 0>>, OutletInit).ids = {0}
    /\ DictGet(light_data, <<LIGHT, 0>>, LightInit) = [ids |-> {2}, bri_lv |-> {5}]
    /\ DictGet(light_data, <<LIGHT, 1>>, LightInit).ids = {2}

\* ------------------------------------------------------------------------
\* Properties of a frame that is delivered again
\* ------------------------------------------------------------------------
\* the frame _process_packet takes next is the frame it decoded last
Redelivered ==
    /\ rx_todo # <<>>
    /\ rx_todo' # rx_todo
    /\ Head(rx_todo) = rx_last.packet
    /\ ChecksumDialect(Head(rx_todo))
    /\ ~rx_last.raised
    /\ ParseType(Head(rx_todo)) \in {LIGHT, OUTLET, THERMOSTAT, VENT, EV}

\* C40: when a light, outlet, thermostat, vent or EV frame is decoded twice
\* in a row, the second decode returns the records the first one returned
\* and leaves the learned state as the first one left it.
C40_RedeliveryIdempotent ==
    [][Redelivered =>
          /\ rx_last'.returned = rx_last.returned
          /\ ~rx_last'.raised
          /\ Learned' = Learned]_vars

====
